---- MODULE Spec2Model ----
(***************************************************************************)
(* Model of the recipe explorer's cache layer (src/src/cache.js).          *)
(*                                                                         *)
(* The cache is one JSON document on disk, read in full and rewritten in   *)
(* full.  Every exported function is an async function: it runs            *)
(* synchronously up to each await and is resumed by a callback.  The model *)
(* has one action per such resumption.  tasks[1] is the call the caller is *)
(* awaiting; tasks[2..] are the promises the code starts without awaiting  *)
(* them (saveToCache's fs.writeFile, getCachedOrFetch's saveToCache,       *)
(* clearExpiredCache's initializeCache), which run on after their caller   *)
(* has returned.                                                           *)
(***************************************************************************)
EXTENDS Integers, Sequences, FiniteSets, TLC

VARIABLES
    now,        \* Date.now()
    ticks,      \* how many times the clock has advanced
    file,       \* data/cache.json: [st, body]
    dirExists,  \* whether the data/ directory exists
    diskOk,     \* whether the file system accepts writes and mkdir
    tasks,      \* the async calls in progress; tasks[1] is the awaited one
    prev,       \* the awaited call that completed before the current one
    ncalls,     \* how many calls the caller has issued
    unhandled,  \* a promise nobody awaits has rejected
    run,        \* utils.js: the call of runWithConcurrency
    wt,         \* utils.js: the call of withTimeout
    ts,         \* utils.js: the call of tryStrategies
    api,        \* api.js: the call of getMealById
    favFile,    \* data/favorites.json: [st, list]
    favTasks,   \* favorites.js: the async calls in progress
    favCalls    \* how many calls of favorites.js the caller has issued

cacheVars == <<now, ticks, file, dirExists, diskOk, tasks, prev, ncalls, unhandled>>
utilVars == <<run, wt, ts>>
apiVars == <<api>>
favVars == <<favFile, favTasks, favCalls>>

\* What the cache layer leaves alone.
beyondCache == <<utilVars, apiVars, favVars>>

vars == <<cacheVars, utilVars, apiVars, favVars>>

----------------------------------------------------------------------------
(* Bounds of the model *)

MaxTicks == 1
MaxCalls == 2
MaxDetached == 2
MaxTasks == 3
MaxConcurrency == 2
MaxStrategies == 3
MaxAttempts == 2
MaxRequests == 5
MaxFavTasks == 4

----------------------------------------------------------------------------
(* Constants and values of the program *)

CACHE_DURATION == 24 * 60 * 60 * 1000

Keys == {"k1", "k2"}

\* The values an operation yields: null (getMealById's "not found"), an
\* empty list (a search with no meals), a meal record.
Values == {"null", "[]", "mealA"}

\* JavaScript truthiness of those values, as `if (cachedData)` tests it.
Truthy(v) == v \notin {"null", "undefined"}

\* How far the clock moves between two events of the model: to just before
\* and to exactly the age at which an entry written now expires.
ClockSteps == {CACHE_DURATION - 1, CACHE_DURATION}

----------------------------------------------------------------------------
(* JSON *)

EmptyDoc == [k \in {} |-> [timestamp |-> 0, data |-> "null"]]

\* JSON.stringify of one value: the text of the value.
StringifyValue(v) ==
    CASE v = "null"  -> "t:null"
      [] v = "[]"    -> "t:[]"
      [] v = "mealA" -> "t:{idMeal:A}"
      [] OTHER       -> "t:omitted"

\* JSON.parse of the text of one value.
ParseValue(t) ==
    CASE t = "t:null"       -> "null"
      [] t = "t:[]"         -> "[]"
      [] t = "t:{idMeal:A}" -> "mealA"
      [] OTHER              -> "undefined"

\* JSON.stringify(cacheData, null, 2): the text of the whole document.
JSONStringify(doc) ==
    [k \in DOMAIN doc |->
        [timestamp |-> doc[k].timestamp, data |-> StringifyValue(doc[k].data)]]

\* JSON.parse(content) of a readable document.
JSONParse(body) ==
    [k \in DOMAIN body |->
        [timestamp |-> body[k].timestamp, data |-> ParseValue(body[k].data)]]

\* The file states: no file, a file that does not parse (empty or cut
\* short by a crash or by a write in progress), a file holding a document.
MissingFile == [st |-> "missing", body |-> EmptyDoc]
CorruptFile == [st |-> "corrupt", body |-> EmptyDoc]
DocFile(doc) == [st |-> "ok", body |-> JSONStringify(doc)]

\* fs.readFile followed by JSON.parse succeeds only on a parsable file.
Readable(f) == f.st = "ok"

----------------------------------------------------------------------------
(* Tasks *)

NewFrame(fn, pc, key, data, force) ==
    [fn |-> fn, pc |-> pc, key |-> key, data |-> data, force |-> force,
     content |-> EmptyDoc,      \* the document a writeFile is writing
     res |-> "none",            \* the value returned
     count |-> 0,               \* clearExpiredCache's removedCount
     \* what the call did, recorded for the properties:
     ops |-> 0,                 \* how many times fetchFn was invoked
     opFailed |-> FALSE,        \* fetchFn threw
     src |-> "none",            \* where the returned value came from
     seen |-> MissingFile,      \* the file as the call's last read found it
     at |-> 0,                  \* Date.now() of that read
     wrote |-> FALSE,           \* the call rewrote the document
     quiet |-> TRUE]            \* no detached task was running when it was issued

Idle == NewFrame("none", "idle", "", "null", FALSE)

\* What the caller keeps of a call that has settled.
Summary(f) ==
    [fn |-> f.fn, pc |-> f.pc, key |-> f.key, data |-> f.data, force |-> f.force,
     res |-> f.res, count |-> f.count, ops |-> f.ops, src |-> f.src, at |-> f.at,
     wrote |-> f.wrote, quiet |-> f.quiet]

Settled(f) == f.pc \in {"idle", "done", "rejected"}

Remove(s, i) == SubSeq(s, 1, i - 1) \o SubSeq(s, i + 1, Len(s))

\* Task i ends with frame f: the awaited call keeps its frame for the
\* caller to read, a detached task goes away.
Finish(i, f) ==
    IF i = 1 THEN [tasks EXCEPT ![1] = f] ELSE Remove(tasks, i)

Return(i, f, v) == Finish(i, [f EXCEPT !.pc = "done", !.res = v])

CanSpawn == Len(tasks) <= MaxDetached

----------------------------------------------------------------------------
(* The other modules before any call *)

\* utils.js, runWithConcurrency: no call yet.
RunIdle ==
    [pc |-> "idle", n |-> 0, conc |-> 0,
     promise |-> <<>>,          \* the promise tasks[i]() returned
     invoked |-> <<>>,          \* how many times tasks[i] was called
     results |-> <<>>,          \* the results array
     currentIndex |-> 0,
     chain |-> <<>>,            \* the index each initial promise is awaiting
     calls |-> 0]

\* utils.js, withTimeout: no call yet.
WtIdle ==
    [pc |-> "idle",
     fn |-> "none",             \* the promise fn() returned
     value |-> "none",          \* what fn resolved with
     fallbackValue |-> "none",
     timer |-> "none",          \* the setTimeout of timeoutPromise
     race |-> "none",           \* what Promise.race settled with
     order |-> <<>>,            \* the events so far, in the order they happened
     res |-> "none",            \* the value returned
     returns |-> 0,             \* how many times the call returned
     calls |-> 0]

\* utils.js, tryStrategies: no call yet.
TsIdle ==
    [pc |-> "idle", n |-> 0,
     i |-> 0,                   \* the loop variable
     errors |-> <<>>,           \* the messages of the errors caught
     res |-> "none",            \* the value returned
     message |-> <<>>,          \* the message of the error thrown
     invoked |-> <<>>,          \* the strategies called, in order
     outcome |-> <<>>,          \* how each strategy called settled
     calls |-> 0]

\* json.meals: null, or the list of the meals found.
NoMeals == [isNull |-> TRUE, list |-> <<>>]

\* api.js, getMealById: no call yet.
ApiIdle ==
    [pc |-> "idle",
     attempts |-> 0,            \* the parameter of the innermost call
     given |-> 0,               \* the parameter of the caller's call
     requests |-> 0,            \* how many times fetch was called
     failures |-> 0,            \* how many requests failed
     delays |-> 0,              \* how many one-second waits elapsed
     meals |-> NoMeals,         \* json.meals of the ok response
     res |-> "none",            \* the value returned
     calls |-> 0]

\* data/favorites.json: no file ("missing"), a file of no bytes or whose
\* bytes do not parse ("empty"), a file holding the text of a list ("ok").
FavMissing == [st |-> "missing", text |-> <<>>]

NoRecipe == [idMeal |-> "", strMeal |-> ""]

\* A call of favorites.js, or a promise it started and does not await.
FavFrame(fn, pc, recipe) ==
    [fn |-> fn, pc |-> pc,
     recipe |-> recipe,         \* addFavorite's recipe, removeFavorite's id
     list |-> <<>>,             \* the list to be written
     res |-> "none",            \* the value returned
     \* what the call did, recorded for the properties:
     seen |-> <<>>,             \* the list getFavorites returned to it
     wrote |-> FALSE,           \* it called fs.writeFile
     failed |-> FALSE,          \* its fs.writeFile rejected
     quiet |-> TRUE,            \* nothing else was running when it was issued
     before |-> FavMissing,     \* the file when it was issued
     prior |-> [fn |-> "none", res |-> "none", recipe |-> NoRecipe]]
                                \* the call its caller awaited before it

\* favorites.js: no call yet.
FavIdle == FavFrame("none", "idle", NoRecipe)

RestOfProgramIdle ==
    /\ run = RunIdle
    /\ wt = WtIdle
    /\ ts = TsIdle
    /\ api = ApiIdle
    /\ favFile = FavMissing
    /\ favTasks = <<FavIdle>>
    /\ favCalls = 0

----------------------------------------------------------------------------
(* Initial state *)

\* The caller has issued nothing yet; the document is as an earlier run of
\* the program left it.
InitWith(t, files) ==
    /\ now = t
    /\ ticks = 0
    /\ file \in files
    /\ dirExists \in BOOLEAN
    /\ (~dirExists => file = MissingFile)
    /\ diskOk = TRUE
    /\ tasks = <<Idle>>
    /\ prev = Summary(Idle)
    /\ ncalls = 0
    /\ unhandled = FALSE
    /\ RestOfProgramIdle

\* A fresh checkout (no file), a file cut short by a crash, an empty store.
Init == InitWith(0, {MissingFile, CorruptFile, DocFile(EmptyDoc)})

----------------------------------------------------------------------------
(* Environment *)

Tick ==
    /\ ticks < MaxTicks
    /\ \E d \in ClockSteps : now' = now + d
    /\ ticks' = ticks + 1
    /\ UNCHANGED <<beyondCache, file, dirExists, diskOk, tasks, prev, ncalls, unhandled>>

\* The file system starts refusing writes and mkdir (a full disk, a
\* read-only remount, a permission change).
DiskFault ==
    /\ diskOk
    /\ diskOk' = FALSE
    /\ UNCHANGED <<beyondCache, now, ticks, file, dirExists, tasks, prev, ncalls, unhandled>>

\* ... and accepts them again.
DiskRecover ==
    /\ ~diskOk
    /\ diskOk' = TRUE
    /\ UNCHANGED <<beyondCache, now, ticks, file, dirExists, tasks, prev, ncalls, unhandled>>

----------------------------------------------------------------------------
(* The caller issues a call once the previous one has settled *)

Issue(f) ==
    /\ Settled(tasks[1])
    /\ ncalls < MaxCalls
    /\ ncalls' = ncalls + 1
    /\ prev' = Summary(tasks[1])
    /\ tasks' = [tasks EXCEPT ![1] = [f EXCEPT !.quiet = (Len(tasks) = 1)]]

CallInitializeCache ==
    /\ Issue(NewFrame("init", "access", "", "null", FALSE))
    /\ UNCHANGED <<beyondCache, now, ticks, file, dirExists, diskOk, unhandled>>

CallGetFromCache ==
    /\ \E k \in Keys : Issue(NewFrame("get", "read", k, "null", FALSE))
    /\ UNCHANGED <<beyondCache, now, ticks, file, dirExists, diskOk, unhandled>>

CallSaveToCache ==
    /\ \E k \in Keys, v \in Values : Issue(NewFrame("save", "access", k, v, FALSE))
    /\ UNCHANGED <<beyondCache, now, ticks, file, dirExists, diskOk, unhandled>>

----------------------------------------------------------------------------
(* initializeCache, also as the first part of saveToCache *)

\* initializeCache returns: saveToCache goes on to its readFile.
AfterInit(i, f) ==
    IF f.fn = "save"
    THEN [tasks EXCEPT ![i] = [f EXCEPT !.pc = "read"]]
    ELSE Return(i, f, "undefined")

\* Mutant: the file is created whether or not it is there.
InitAccessBy_Always(i) ==
    LET f == tasks[i] IN
    /\ f.fn \in {"init", "save"}
    /\ f.pc = "access"
    /\ tasks' = [tasks EXCEPT ![i] = [f EXCEPT !.pc = "accessDir"]]
    /\ UNCHANGED <<beyondCache, now, ticks, file, dirExists, diskOk, prev, ncalls, unhandled>>

\* await fs.access(CACHE_FILE)
InitAccessBy(i) ==
    LET f == tasks[i] IN
    /\ f.fn \in {"init", "save"}
    /\ f.pc = "access"
    /\ tasks' = IF file.st # "missing"
                THEN AfterInit(i, f)
                ELSE [tasks EXCEPT ![i] = [f EXCEPT !.pc = "accessDir"]]
    /\ UNCHANGED <<beyondCache, now, ticks, file, dirExists, diskOk, prev, ncalls, unhandled>>

\* await fs.access(dirPath)
InitAccessDirBy(i) ==
    LET f == tasks[i] IN
    /\ f.pc = "accessDir"
    /\ tasks' = [tasks EXCEPT ![i] =
                    [f EXCEPT !.pc = IF dirExists THEN "initOpen" ELSE "mkdir"]]
    /\ UNCHANGED <<beyondCache, now, ticks, file, dirExists, diskOk, prev, ncalls, unhandled>>

\* await fs.mkdir(dirPath, {recursive: true}), in the catch block and in no
\* try of its own: its failure leaves initializeCache.  saveToCache catches
\* it and returns false; awaited directly it rejects to the caller; not
\* awaited (clearExpiredCache) it is an unhandled rejection.
MkdirOutcome(i, f) ==
    IF diskOk
    THEN [tasks |-> [tasks EXCEPT ![i] = [f EXCEPT !.pc = "initOpen"]],
          dir |-> TRUE, unhandled |-> unhandled]
    ELSE IF f.fn = "save"
    THEN [tasks |-> Return(i, f, "false"), dir |-> dirExists, unhandled |-> unhandled]
    ELSE [tasks |-> Finish(i, [f EXCEPT !.pc = "rejected"]),
          dir |-> dirExists, unhandled |-> (unhandled \/ i # 1)]

InitMkdirBy(i) ==
    LET f == tasks[i]
        o == MkdirOutcome(i, f) IN
    /\ f.pc = "mkdir"
    /\ tasks' = o.tasks
    /\ dirExists' = o.dir
    /\ unhandled' = o.unhandled
    /\ UNCHANGED <<beyondCache, now, ticks, file, diskOk, prev, ncalls>>

\* await fs.writeFile(CACHE_FILE, "{}"): the file is opened for writing,
\* which creates or empties it; a failure is caught and logged.
InitWriteOpenBy(i) ==
    LET f == tasks[i] IN
    /\ f.pc = "initOpen"
    /\ IF diskOk /\ dirExists
       THEN /\ file' = CorruptFile
            /\ tasks' = [tasks EXCEPT ![i] = [f EXCEPT !.pc = "initData"]]
       ELSE /\ file' = file
            /\ tasks' = AfterInit(i, f)
    /\ UNCHANGED <<beyondCache, now, ticks, dirExists, diskOk, prev, ncalls, unhandled>>

\* ... and then the text is written.
InitWriteDataBy(i) ==
    LET f == tasks[i] IN
    /\ f.pc = "initData"
    /\ file' = DocFile(EmptyDoc)
    /\ tasks' = AfterInit(i, [f EXCEPT !.wrote = TRUE])
    /\ UNCHANGED <<beyondCache, now, ticks, dirExists, diskOk, prev, ncalls, unhandled>>

----------------------------------------------------------------------------
(* getFromCache *)

\* Mutant: the comparison off by one (<= for <).
Fresh_Inclusive(entry, t) == t - entry.timestamp <= CACHE_DURATION

\* An entry is fresh while now - timestamp < CACHE_DURATION.
Fresh(entry, t) == t - entry.timestamp < CACHE_DURATION

\* Mutant: the expiry check left out.
CacheHit_AnyAge(f, key, t) ==
    /\ Readable(f)
    /\ key \in DOMAIN JSONParse(f.body)

\* getFromCache finds an entry to return on file f at time t.
CacheHit(f, key, t) ==
    /\ Readable(f)
    /\ key \in DOMAIN JSONParse(f.body)
    /\ Fresh(JSONParse(f.body)[key], t)

\* What getFromCache returns on file f at time t: the entry's data, or
\* null (no entry, an expired entry, a failed read or parse).
GetFromCacheResult(f, key, t) ==
    IF CacheHit(f, key, t) THEN JSONParse(f.body)[key].data ELSE "null"

\* Mutant: a read that deletes the expired entry it finds.
GetRead_Evicting ==
    LET f == tasks[1]
        hit == CacheHit(file, f.key, now)
        doc == JSONParse(file.body)
    IN
    /\ f.fn = "get"
    /\ f.pc = "read"
    /\ tasks' = Return(1, [f EXCEPT !.seen = file, !.at = now,
                                    !.src = IF hit THEN "cache" ELSE "none"],
                       GetFromCacheResult(file, f.key, now))
    /\ file' = IF Readable(file) /\ f.key \in DOMAIN doc /\ ~hit
               THEN DocFile([k \in DOMAIN doc \ {f.key} |-> doc[k]])
               ELSE file
    /\ UNCHANGED <<beyondCache, now, ticks, dirExists, diskOk, prev, ncalls, unhandled>>

\* The continuation of `await fs.readFile(CACHE_FILE)`.
GetRead ==
    LET f == tasks[1] IN
    /\ f.fn = "get"
    /\ f.pc = "read"
    /\ tasks' = Return(1, [f EXCEPT !.seen = file, !.at = now,
                                    !.src = IF CacheHit(file, f.key, now)
                                            THEN "cache" ELSE "none"],
                       GetFromCacheResult(file, f.key, now))
    /\ UNCHANGED <<beyondCache, now, ticks, file, dirExists, diskOk, prev, ncalls, unhandled>>

----------------------------------------------------------------------------
(* saveToCache *)

\* Mutant: the document written holds the new entry alone.
SetEntry_Alone(doc, key, data, t) ==
    [k \in {key} |-> [timestamp |-> t, data |-> data]]

\* cacheData[key] = {timestamp: Date.now(), data}
SetEntry(doc, key, data, t) ==
    [k \in DOMAIN doc \cup {key} |->
        IF k = key THEN [timestamp |-> t, data |-> data] ELSE doc[k]]

\* fs.writeFile(CACHE_FILE, ...) is called and not awaited: the write is a
\* task of its own, and saveToCache returns true at once.
SaveSpawn(i, f, doc) ==
    LET w == [NewFrame("write", "open", f.key, f.data, FALSE) EXCEPT !.content = doc]
        g == [f EXCEPT !.seen = file, !.at = now, !.content = doc]
    IN  IF i = 1
        THEN [tasks EXCEPT ![1] = [g EXCEPT !.pc = "done", !.res = "true"]] \o <<w>>
        ELSE [tasks EXCEPT ![i] = w]

\* The continuation of `await fs.readFile(CACHE_FILE, 'utf-8')`.
SaveReadBy(i) ==
    LET f == tasks[i] IN
    /\ f.fn = "save"
    /\ f.pc = "read"
    /\ IF Readable(file)
       THEN /\ (i = 1 => CanSpawn)
            /\ tasks' = SaveSpawn(i, f, SetEntry(JSONParse(file.body), f.key, f.data, now))
       ELSE tasks' = Return(i, [f EXCEPT !.seen = file, !.at = now], "false")
    /\ UNCHANGED <<beyondCache, now, ticks, file, dirExists, diskOk, prev, ncalls, unhandled>>

\* The write nobody awaits: the file is opened (created or emptied) ...
WriteOpenBy(i) ==
    LET f == tasks[i] IN
    /\ f.fn = "write"
    /\ f.pc = "open"
    /\ IF diskOk /\ dirExists
       THEN /\ file' = CorruptFile
            /\ tasks' = [tasks EXCEPT ![i] = [f EXCEPT !.pc = "data"]]
            /\ unhandled' = unhandled
       ELSE /\ file' = file
            /\ tasks' = Remove(tasks, i)
            /\ unhandled' = TRUE
    /\ UNCHANGED <<beyondCache, now, ticks, dirExists, diskOk, prev, ncalls>>

\* ... and then the text is written.
WriteDataBy(i) ==
    LET f == tasks[i] IN
    /\ f.fn = "write"
    /\ f.pc = "data"
    /\ file' = DocFile(f.content)
    /\ tasks' = Remove(tasks, i)
    /\ UNCHANGED <<beyondCache, now, ticks, dirExists, diskOk, prev, ncalls, unhandled>>

----------------------------------------------------------------------------
(* clearExpiredCache *)

\* Mutant: the comparison off by one (> for >=).
Expired_Strict(entry, t) == t - entry.timestamp > CACHE_DURATION

\* clearExpiredCache's own test: now - timestamp >= CACHE_DURATION.
Expired(entry, t) == t - entry.timestamp >= CACHE_DURATION

ExpiredKeys(doc, t) == {k \in DOMAIN doc : Expired(doc[k], t)}

\* The document after the loop's deletes.
Pruned(doc, t) == [k \in DOMAIN doc \ ExpiredKeys(doc, t) |-> doc[k]]

\* initializeCache() is called and not awaited, and the readFile is issued.
CallClearExpiredCache ==
    /\ CanSpawn
    /\ Settled(tasks[1])
    /\ ncalls < MaxCalls
    /\ ncalls' = ncalls + 1
    /\ prev' = Summary(tasks[1])
    /\ tasks' = [tasks EXCEPT ![1] =
                    [NewFrame("clear", "read", "", "null", FALSE)
                        EXCEPT !.quiet = (Len(tasks) = 1)]]
                     \o <<NewFrame("init", "access", "", "null", FALSE)>>
    /\ UNCHANGED <<beyondCache, now, ticks, file, dirExists, diskOk, unhandled>>

\* The continuation of the readFile: parse, loop, and either start the
\* awaited writeFile or return 0; a failed read or parse returns 0.
ClearRead ==
    LET f == tasks[1]
        doc == JSONParse(file.body)
        n == Cardinality(ExpiredKeys(doc, now))
        g == [f EXCEPT !.seen = file, !.at = now]
    IN
    /\ f.fn = "clear"
    /\ f.pc = "read"
    /\ tasks' = IF ~Readable(file) THEN Return(1, [g EXCEPT !.src = "catch"], "count")
                ELSE IF n > 0
                THEN [tasks EXCEPT ![1] =
                        [g EXCEPT !.pc = "clearOpen", !.count = n,
                                  !.content = Pruned(doc, now)]]
                ELSE Return(1, g, "count")
    /\ UNCHANGED <<beyondCache, now, ticks, file, dirExists, diskOk, prev, ncalls, unhandled>>

\* await fs.writeFile: the open; its failure is caught and 0 is returned.
ClearWriteOpen ==
    LET f == tasks[1] IN
    /\ f.pc = "clearOpen"
    /\ IF diskOk /\ dirExists
       THEN /\ file' = CorruptFile
            /\ tasks' = [tasks EXCEPT ![1] = [f EXCEPT !.pc = "clearData"]]
       ELSE /\ file' = file
            /\ tasks' = Return(1, [f EXCEPT !.count = 0, !.src = "catch"], "count")
    /\ UNCHANGED <<beyondCache, now, ticks, dirExists, diskOk, prev, ncalls, unhandled>>

\* ... the text is written and removedCount is returned.
ClearWriteData ==
    LET f == tasks[1] IN
    /\ f.pc = "clearData"
    /\ file' = DocFile(f.content)
    /\ tasks' = Return(1, [f EXCEPT !.wrote = TRUE], "count")
    /\ UNCHANGED <<beyondCache, now, ticks, dirExists, diskOk, prev, ncalls, unhandled>>

----------------------------------------------------------------------------
(* getCachedOrFetch *)

\* Without forceRefresh the call starts with getFromCache's readFile; with
\* it, fetchFn is invoked at once.
CallGetCachedOrFetch ==
    /\ \E k \in Keys, force \in BOOLEAN :
          Issue([NewFrame("fetch", IF force THEN "op" ELSE "cacheRead", k, "null", force)
                    EXCEPT !.ops = IF force THEN 1 ELSE 0])
    /\ UNCHANGED <<beyondCache, now, ticks, file, dirExists, diskOk, unhandled>>

\* getFromCache returns: a truthy value is returned, anything else invokes
\* fetchFn.
FetchCacheRead ==
    LET f == tasks[1]
        cachedData == GetFromCacheResult(file, f.key, now)
        g == [f EXCEPT !.seen = file, !.at = now]
    IN
    /\ f.fn = "fetch"
    /\ f.pc = "cacheRead"
    /\ tasks' = IF Truthy(cachedData)
                THEN Return(1, [g EXCEPT !.src = "cache"], cachedData)
                ELSE [tasks EXCEPT ![1] = [g EXCEPT !.pc = "op", !.ops = f.ops + 1]]
    /\ UNCHANGED <<beyondCache, now, ticks, file, dirExists, diskOk, prev, ncalls, unhandled>>

\* Mutant: an empty result is taken for a failure and sent to the catch
\* block.
FetchOpSucceeds_EmptyIsFailure ==
    LET f == tasks[1] IN
    /\ f.fn = "fetch"
    /\ f.pc = "op"
    /\ CanSpawn
    /\ \E v \in Values :
          tasks' = IF v = "mealA"
                   THEN [tasks EXCEPT ![1] =
                            [f EXCEPT !.pc = "done", !.res = v, !.data = v,
                                      !.src = "op", !.at = now]]
                        \o <<NewFrame("save", "access", f.key, v, FALSE)>>
                   ELSE [tasks EXCEPT ![1] = [f EXCEPT !.pc = "fallback", !.data = v]]
    /\ UNCHANGED <<beyondCache, now, ticks, file, dirExists, diskOk, prev, ncalls, unhandled>>

\* fetchFn resolves: saveToCache(key, freshData) is called and not awaited,
\* and freshData is returned.
FetchOpSucceeds ==
    LET f == tasks[1] IN
    /\ f.fn = "fetch"
    /\ f.pc = "op"
    /\ CanSpawn
    /\ \E v \in Values :
          tasks' = [tasks EXCEPT ![1] =
                        [f EXCEPT !.pc = "done", !.res = v, !.data = v, !.src = "op",
                                  !.at = now]]
                   \o <<NewFrame("save", "access", f.key, v, FALSE)>>
    /\ UNCHANGED <<beyondCache, now, ticks, file, dirExists, diskOk, prev, ncalls, unhandled>>

\* Mutant: the catch block reads the document whatever forceRefresh is.
FetchOpFails_AlwaysFallback ==
    LET f == tasks[1] IN
    /\ f.fn = "fetch"
    /\ f.pc = "op"
    /\ tasks' = [tasks EXCEPT ![1] = [f EXCEPT !.opFailed = TRUE, !.pc = "fallback"]]
    /\ UNCHANGED <<beyondCache, now, ticks, file, dirExists, diskOk, prev, ncalls, unhandled>>

\* fetchFn rejects: with forceRefresh nothing is returned (undefined),
\* without it the document is read once more.
FetchOpFails ==
    LET f == tasks[1]
        g == [f EXCEPT !.opFailed = TRUE]
    IN
    /\ f.fn = "fetch"
    /\ f.pc = "op"
    /\ tasks' = IF f.force
                THEN Return(1, g, "undefined")
                ELSE [tasks EXCEPT ![1] = [g EXCEPT !.pc = "fallback"]]
    /\ UNCHANGED <<beyondCache, now, ticks, file, dirExists, diskOk, prev, ncalls, unhandled>>

\* Mutant: the fallback read through getFromCache, which drops expired
\* entries.
FallbackResult_FreshOnly(f, key) ==
    IF CacheHit(f, key, now) THEN JSONParse(f.body)[key].data ELSE "undefined"

\* What the catch block returns on file f: the entry's data whatever its
\* age, or nothing.
FallbackResult(f, key) ==
    IF ~Readable(f) THEN "undefined"
    ELSE LET cacheData == JSONParse(f.body) IN
         IF key \in DOMAIN cacheData THEN cacheData[key].data ELSE "undefined"

FallbackSource(f, key) ==
    IF Readable(f) /\ key \in DOMAIN f.body THEN "fallback" ELSE "none"

\* The continuation of the catch block's readFile.
FetchFallback ==
    LET f == tasks[1] IN
    /\ f.fn = "fetch"
    /\ f.pc = "fallback"
    /\ tasks' = Return(1, [f EXCEPT !.seen = file, !.at = now,
                                    !.src = FallbackSource(file, f.key)],
                       FallbackResult(file, f.key))
    /\ UNCHANGED <<beyondCache, now, ticks, file, dirExists, diskOk, prev, ncalls, unhandled>>

----------------------------------------------------------------------------
(* Specifications *)

\* Each step of initializeCache, of saveToCache and of the write it does
\* not await is taken by whichever task is at it.
InitAccess == \E i \in DOMAIN tasks : InitAccessBy(i)
InitAccessDir == \E i \in DOMAIN tasks : InitAccessDirBy(i)
InitMkdir == \E i \in DOMAIN tasks : InitMkdirBy(i)
InitWriteOpen == \E i \in DOMAIN tasks : InitWriteOpenBy(i)
InitWriteData == \E i \in DOMAIN tasks : InitWriteDataBy(i)
SaveRead == \E i \in DOMAIN tasks : SaveReadBy(i)
WriteOpen == \E i \in DOMAIN tasks : WriteOpenBy(i)
WriteData == \E i \in DOMAIN tasks : WriteDataBy(i)

InitSteps ==
    \/ InitAccess
    \/ InitAccessDir
    \/ InitMkdir
    \/ InitWriteOpen
    \/ InitWriteData

SaveSteps ==
    \/ SaveRead
    \/ WriteOpen
    \/ WriteData

Environment ==
    \/ Tick
    \/ DiskFault
    \/ DiskRecover

\* A caller of the store: initializeCache, getFromCache, saveToCache.
NextStore ==
    \/ Environment
    \/ CallInitializeCache
    \/ CallGetFromCache
    \/ CallSaveToCache
    \/ GetRead
    \/ InitSteps
    \/ SaveSteps

SpecStore == Init /\ [][NextStore]_vars

\* A caller of getCachedOrFetch and getFromCache.
NextFetch ==
    \/ Environment
    \/ CallGetCachedOrFetch
    \/ CallGetFromCache
    \/ GetRead
    \/ FetchCacheRead
    \/ FetchOpSucceeds
    \/ FetchOpFails
    \/ FetchFallback
    \/ InitSteps
    \/ SaveSteps

SpecFetch == Init /\ [][NextFetch]_vars

\* A caller of clearExpiredCache, on a document that earlier runs filled:
\* any of the keys, written at time 0 or 1, the clock now at 1.
SeedTimes == {0, 1}

SeedDocs ==
    UNION {[S -> [timestamp : SeedTimes, data : {"[]", "mealA"}]] : S \in SUBSET Keys}

InitEvict ==
    InitWith(1, {MissingFile, CorruptFile} \cup {DocFile(d) : d \in SeedDocs})

NextEvict ==
    \/ Environment
    \/ CallClearExpiredCache
    \/ ClearRead
    \/ ClearWriteOpen
    \/ ClearWriteData
    \/ InitSteps

SpecEvict == InitEvict /\ [][NextEvict]_vars

----------------------------------------------------------------------------
(* Properties *)

Cur == tasks[1]

Returned(fn) == Cur.fn = fn /\ Cur.pc = "done"

\* 24 hours in milliseconds.
TTL == 24 * 60 * 60 * 1000

\* The document the call's last read found holds an entry for its key.
SeenHas(f) == Readable(f.seen) /\ f.key \in DOMAIN f.seen.body

SeenEntry(f) == JSONParse(f.seen.body)[f.key]

\* That entry's age at the read.
SeenAge(f) == f.at - SeenEntry(f).timestamp

\* C1: getCachedOrFetch without forceRefresh on a miss invokes fetchFn exactly
\* once, and a following getCachedOrFetch for the same key, issued after the
\* first has returned and within the TTL, returns the same result without
\* invoking fetchFn.
C1_MissFetchesOnceThenHits ==
    /\ (Returned("fetch") /\ ~Cur.force /\ Cur.src = "op") => Cur.ops = 1
    /\ ( /\ Cur.fn = "fetch" /\ ~Cur.force /\ Cur.pc # "cacheRead"
         /\ prev.fn = "fetch" /\ prev.pc = "done" /\ ~prev.force /\ prev.quiet
         /\ prev.src = "op" /\ prev.key = Cur.key
         /\ Cur.at - prev.at < TTL )
       => (Cur.ops = 0 /\ (Cur.pc = "done" => Cur.res = prev.res))

\* C2: once saveToCache(key, payload) has returned true, a getFromCache(key)
\* issued next, within the TTL and with no other writer, returns payload.
C2_SaveThenGetRoundTrip ==
    ( /\ Returned("get")
      /\ prev.fn = "save" /\ prev.pc = "done" /\ prev.res = "true" /\ prev.quiet
      /\ prev.key = Cur.key
      /\ Cur.at - prev.at < TTL )
    => Cur.res = prev.data

\* C3: getCachedOrFetch without forceRefresh, when the store holds a fresh
\* entry for the key (whatever its payload), returns that payload and never
\* invokes fetchFn.
C3_FreshHitNeverFetches ==
    ( /\ Cur.fn = "fetch" /\ ~Cur.force
      /\ Cur.pc \in {"op", "done"} /\ Cur.src \in {"none", "cache"}
      /\ SeenHas(Cur) /\ SeenAge(Cur) < TTL )
    => (Cur.pc = "done" /\ Cur.ops = 0 /\ Cur.res = SeenEntry(Cur).data)

\* C4: when fetchFn fails in getCachedOrFetch without forceRefresh and the
\* document holds an entry for the key, stale or not, the call returns that
\* entry's payload and does not fail.
C4_StaleFallbackOnFailure ==
    ( /\ Cur.fn = "fetch" /\ Settled(Cur) /\ ~Cur.force
      /\ Cur.opFailed /\ SeenHas(Cur) )
    => (Cur.pc = "done" /\ Cur.res = SeenEntry(Cur).data)

\* fetchFn failed and the call returned the payload of an expired entry.
C4_Witness ==
    /\ Returned("fetch") /\ ~Cur.force /\ Cur.opFailed
    /\ SeenHas(Cur) /\ SeenAge(Cur) >= TTL
    /\ Cur.res = "mealA"

\* C5: getFromCache never returns the payload of an entry whose age is >=
\* TTL, and getCachedOrFetch returns one only after fetchFn was invoked and
\* failed within the same call.
C5_ExpiredOnlyAsLastResort ==
    /\ (Returned("get") /\ SeenHas(Cur) /\ SeenAge(Cur) >= TTL)
       => (Cur.src = "none" /\ Cur.res = "null")
    /\ ( /\ Returned("fetch") /\ Cur.src \in {"cache", "fallback"}
         /\ SeenHas(Cur) /\ SeenAge(Cur) >= TTL )
       => (Cur.src = "fallback" /\ Cur.ops = 1 /\ Cur.opFailed /\ ~Cur.force)

\* An entry aged exactly TTL was returned, after fetchFn had failed.
C5_Witness ==
    /\ Returned("fetch") /\ Cur.src = "fallback" /\ Cur.opFailed
    /\ SeenHas(Cur) /\ SeenAge(Cur) = TTL
    /\ Cur.res = SeenEntry(Cur).data

\* C6: getFromCache(key) returns the stored payload if and only if the
\* document has an entry for key with now - timestamp < 24 hours; otherwise
\* (no entry, an entry aged TTL or more, an unreadable or corrupt document)
\* it returns null; it never raises.
C6_GetFromCacheIffFresh ==
    Cur.fn = "get" =>
        /\ Cur.pc # "rejected"
        /\ Cur.pc = "done" =>
            /\ (Cur.src = "cache") = (SeenHas(Cur) /\ SeenAge(Cur) < TTL)
            /\ Cur.res = IF SeenHas(Cur) /\ SeenAge(Cur) < TTL
                         THEN SeenEntry(Cur).data
                         ELSE "null"

\* getFromCache returned null for an entry aged exactly TTL.
C6_Witness ==
    /\ Returned("get")
    /\ SeenHas(Cur) /\ SeenAge(Cur) = TTL /\ SeenEntry(Cur).data = "mealA"
    /\ Cur.res = "null"

\* C7: getFromCache never modifies the document: the step in which it
\* returns leaves the file as it was, an expired entry included.
C7_GetFromCacheKeepsDocument ==
    [][ ( /\ tasks[1].fn = "get" /\ tasks[1].pc = "read"
          /\ tasks'[1].fn = "get" /\ tasks'[1].pc = "done" )
        => file' = file ]_vars

\* getFromCache returned null for an expired entry, which is still in the
\* document.
C7_Witness ==
    /\ Returned("get") /\ Cur.res = "null"
    /\ SeenHas(Cur) /\ SeenAge(Cur) >= TTL
    /\ Readable(file) /\ Cur.key \in DOMAIN file.body
    /\ file.body[Cur.key] = Cur.seen.body[Cur.key]

\* The entries of the document clearExpiredCache read that are expired, and
\* the document without them.
SeenExpired(f) ==
    {k \in DOMAIN f.seen.body : f.at - f.seen.body[k].timestamp >= TTL}

SeenKept(f) ==
    [k \in DOMAIN f.seen.body \ SeenExpired(f) |-> JSONParse(f.seen.body)[k]]

\* C8: clearExpiredCache removes exactly the entries with age >= TTL and
\* keeps every other entry as it was, returns the number removed, rewrites
\* the document only when it removed an entry, and returns 0, the document
\* unchanged, when it fails; a call that follows a call that did not fail,
\* at the same clock with no write in between, returns 0.
C8_ClearRemovesExactlyExpired ==
    /\ Cur.fn = "clear" => Cur.pc # "rejected"
    /\ (Returned("clear") /\ Cur.src = "catch") =>
        /\ Cur.count = 0
        /\ ~Cur.wrote
        /\ (Cur.quiet /\ Readable(Cur.seen)) => file = Cur.seen
    /\ (Returned("clear") /\ Cur.src # "catch") =>
        /\ Readable(Cur.seen)
        /\ Cur.count = Cardinality(SeenExpired(Cur))
        /\ Cur.wrote = (Cur.count > 0)
        /\ Cur.quiet => file = DocFile(SeenKept(Cur))
    /\ ( /\ Returned("clear")
         /\ prev.fn = "clear" /\ prev.pc = "done" /\ prev.src # "catch"
         /\ Cur.at = prev.at )
       => Cur.count = 0

\* A first call removed the one expired entry and kept the fresh one; the
\* call after it found nothing to remove.
C8_Witness ==
    /\ Returned("clear") /\ Cur.count = 0
    /\ prev.fn = "clear" /\ prev.wrote /\ prev.count = 1
    /\ Cur.at = prev.at
    /\ Readable(file) /\ DOMAIN file.body # {}

\* C9: saveToCache returns true only when the updated document has been
\* written, returns false on every failure, the write's included, and
\* leaves no unhandled failure behind.
C9_SaveReportsEveryFailure ==
    /\ ~unhandled
    /\ (Returned("save") /\ Cur.res = "true" /\ Cur.quiet)
       => file = DocFile(Cur.content)

\* C10: initializeCache never fails its caller.
C10_InitializeNeverFails ==
    ~(Cur.fn = "init" /\ Cur.pc = "rejected")

----------------------------------------------------------------------------
(* utils.js: runWithConcurrency *)

\* The other modules' state, as an action of utils.js leaves it.
beyondUtils == <<cacheVars, apiVars, favVars>>

\* The caller's state before any call of the cache layer.
CacheIdle ==
    /\ now = 0
    /\ ticks = 0
    /\ file = MissingFile
    /\ dirExists = FALSE
    /\ diskOk = TRUE
    /\ tasks = <<Idle>>
    /\ prev = Summary(Idle)
    /\ ncalls = 0
    /\ unhandled = FALSE

Min(a, b) == IF a < b THEN a ELSE b

\* What task index resolves with when it succeeds.
ResultOf(index) == "r" \o ToString(index)

\* Mutant: the whole list is started at once.
InitialBatch_All(concurrency, length) == length

\* const initialBatch = Math.min(concurrency, tasks.length)
InitialBatch(concurrency, length) == Min(concurrency, length)

\* Mutant: results are stored in the order of completion.
Store_Push(results, index, v) ==
    LET free == {i \in DOMAIN results : results[i] = "empty"} IN
    IF free = {} THEN results
    ELSE [results EXCEPT ![CHOOSE i \in free : \A k \in free : i <= k] = v]

\* results[index] = ...
Store(results, index, v) == [results EXCEPT ![index] = v]

\* Mutant: the index moves on by two.
Advance_Skip(currentIndex) == currentIndex + 2

\* currentIndex++
Advance(currentIndex) == currentIndex + 1

\* runTask(index) up to its await: tasks[index]() is called, and chain j
\* waits for the promise it returned.
RunTask(r, j, index) ==
    [r EXCEPT !.promise[index] = "pending",
              !.invoked[index] = @ + 1,
              !.chain[j] = index]

\* runWithConcurrency up to `await Promise.all(initialPromises)`.
CallRunWithConcurrency ==
    /\ run.pc \in {"idle", "done"}
    /\ run.calls < MaxCalls
    /\ \E length \in 0..MaxTasks, concurrency \in 0..MaxConcurrency :
          LET initialBatch == InitialBatch(concurrency, length) IN
          run' = [pc |-> "all", n |-> length, conc |-> concurrency,
                  promise |-> [i \in 0..(length - 1) |->
                                  IF i < initialBatch THEN "pending" ELSE "unstarted"],
                  invoked |-> [i \in 0..(length - 1) |->
                                  IF i < initialBatch THEN 1 ELSE 0],
                  results |-> [i \in 0..(length - 1) |-> "empty"],
                  currentIndex |-> initialBatch,
                  chain |-> [j \in 1..initialBatch |-> j - 1],
                  calls |-> run.calls + 1]
    /\ UNCHANGED <<beyondUtils, wt, ts>>

\* A task's promise settles: it resolves, or rejects with an Error.
TaskSettles ==
    /\ \E index \in DOMAIN run.promise :
          /\ run.promise[index] = "pending"
          /\ \E outcome \in {"resolved", "rejected"} :
                run' = [run EXCEPT !.promise[index] = outcome]
    /\ UNCHANGED <<beyondUtils, wt, ts>>

\* Mutant: the continuation stores the result and starts nothing.
RunTaskResume_NoRefill ==
    /\ \E j \in DOMAIN run.chain :
          LET index == run.chain[j] IN
          /\ index >= 0
          /\ run.promise[index] \in {"resolved", "rejected"}
          /\ run' = [run EXCEPT !.results =
                                    Store(run.results, index,
                                          IF run.promise[index] = "resolved"
                                          THEN ResultOf(index) ELSE "null"),
                                !.chain[j] = -1]
    /\ UNCHANGED <<beyondUtils, wt, ts>>

\* The continuation of `await tasks[index]()` in runTask: the result or
\* null is stored, and the next task, if there is one, is started.
RunTaskResume ==
    /\ \E j \in DOMAIN run.chain :
          LET index == run.chain[j] IN
          /\ index >= 0
          /\ run.promise[index] \in {"resolved", "rejected"}
          /\ LET stored == [run EXCEPT !.results =
                              Store(run.results, index,
                                    IF run.promise[index] = "resolved"
                                    THEN ResultOf(index) ELSE "null")]
             IN  run' = IF run.currentIndex < run.n
                        THEN [RunTask(stored, j, run.currentIndex)
                                 EXCEPT !.currentIndex = Advance(run.currentIndex)]
                        ELSE [stored EXCEPT !.chain[j] = -1]
    /\ UNCHANGED <<beyondUtils, wt, ts>>

\* Promise.all resolves once every initial promise has: results is
\* returned.
RunReturn ==
    /\ run.pc = "all"
    /\ \A j \in DOMAIN run.chain : run.chain[j] = -1
    /\ run' = [run EXCEPT !.pc = "done"]
    /\ UNCHANGED <<beyondUtils, wt, ts>>

InitUtils ==
    /\ CacheIdle
    /\ RestOfProgramIdle

NextRunner ==
    \/ CallRunWithConcurrency
    \/ TaskSettles
    \/ RunTaskResume
    \/ RunReturn

SpecRunner == InitUtils /\ [][NextRunner]_vars

\* Every task settles in the end, and the continuations that are ready run.
SpecRunnerLive ==
    /\ SpecRunner
    /\ WF_vars(TaskSettles)
    /\ WF_vars(RunTaskResume)
    /\ WF_vars(RunReturn)

InFlight == {i \in DOMAIN run.promise : run.promise[i] = "pending"}

UnsettledTasks == {i \in DOMAIN run.promise : run.promise[i] \in {"unstarted", "pending"}}

\* C11: with concurrency >= 1, never more than `concurrency` tasks are
\* started and not yet settled, in whatever order the tasks settle.
C11_AtMostConcurrencyInFlight ==
    run.conc >= 1 => Cardinality(InFlight) <= run.conc

\* The limit is reached while tasks are still waiting to be started.
C11_Witness ==
    /\ run.conc >= 1
    /\ Cardinality(InFlight) = run.conc
    /\ run.currentIndex < run.n
    /\ \E i \in DOMAIN run.promise : run.promise[i] \in {"resolved", "rejected"}

\* C12: the array returned has the length of tasks; position i holds task
\* i's result if it succeeded and null if it failed, whatever the order of
\* completion, and a failure leaves the other positions alone.
C12_ResultsInInputOrder ==
    (run.pc = "done" /\ run.conc >= 1) =>
        /\ DOMAIN run.results = 0..(run.n - 1)
        /\ \A i \in DOMAIN run.results :
              run.results[i] = IF run.promise[i] = "resolved"
                               THEN ResultOf(i) ELSE "null"

\* A task in the middle failed and the others' results are in place.
C12_Witness ==
    /\ run.pc = "done" /\ run.n = 3 /\ run.conc = 2
    /\ run.results = [i \in 0..2 |-> IF i = 1 THEN "null" ELSE ResultOf(i)]

\* C13: with concurrency >= 1 every task is called exactly once, the
\* runner returns only after every task has settled, and a runner whose
\* tasks all settle returns.
C13_EveryTaskOnceThenCompletes ==
    /\ [](\A i \in DOMAIN run.invoked : run.invoked[i] <= 1)
    /\ []((run.pc = "done" /\ run.conc >= 1) =>
            /\ \A i \in DOMAIN run.invoked : run.invoked[i] = 1
            /\ UnsettledTasks = {})
    /\ (run.pc = "all") ~> (run.pc = "done")

\* The runner has returned from a list longer than the limit.
C13_Witness ==
    /\ run.pc = "done" /\ run.conc >= 1 /\ run.n > run.conc
    /\ \A i \in DOMAIN run.invoked : run.invoked[i] = 1

----------------------------------------------------------------------------
(* utils.js: withTimeout *)

\* What fn resolves with, and what the caller passes as fallbackValue.
FnValues == {"mealA", "[]"}
FallbackValues == {"fallback", "null"}

\* Mutant: a race that keeps the last of its promises to settle.
RaceSettle_Last(race, event) == event

\* Promise.race settles with the first of its promises to settle.
RaceSettle(race, event) == IF race = "pending" THEN event ELSE race

\* withTimeout up to `await Promise.race(...)`: the timer is armed and fn
\* is called; an fn that throws at once is caught and the fallback value
\* returned.
CallWithTimeout ==
    /\ wt.pc \in {"idle", "done"}
    /\ wt.calls < MaxCalls
    /\ \E fallbackValue \in FallbackValues, throws \in BOOLEAN :
          wt' = IF throws
                THEN [WtIdle EXCEPT !.pc = "done", !.fn = "threw", !.timer = "armed",
                                    !.race = "pending", !.order = <<"fnError">>,
                                    !.fallbackValue = fallbackValue,
                                    !.res = fallbackValue, !.returns = 1,
                                    !.calls = wt.calls + 1]
                ELSE [WtIdle EXCEPT !.pc = "race", !.fn = "pending", !.timer = "armed",
                                    !.race = "pending",
                                    !.fallbackValue = fallbackValue,
                                    !.calls = wt.calls + 1]
    /\ UNCHANGED <<beyondUtils, run, ts>>

\* fn's promise resolves, whether or not anybody still waits for it.
WtFnResolves ==
    /\ wt.fn = "pending"
    /\ \E v \in FnValues :
          wt' = [wt EXCEPT !.fn = "resolved", !.value = v,
                           !.race = RaceSettle(wt.race, "fn"),
                           !.order = Append(wt.order, "fn")]
    /\ UNCHANGED <<beyondUtils, run, ts>>

\* fn's promise rejects.
WtFnRejects ==
    /\ wt.fn = "pending"
    /\ wt' = [wt EXCEPT !.fn = "rejected",
                        !.race = RaceSettle(wt.race, "fnError"),
                        !.order = Append(wt.order, "fnError")]
    /\ UNCHANGED <<beyondUtils, run, ts>>

\* Mutant: the timer that fires cancels the operation fn started.
WtTimerFires_Cancels ==
    /\ wt.timer = "armed"
    /\ wt' = [wt EXCEPT !.timer = "fired",
                        !.race = RaceSettle(wt.race, "timer"),
                        !.order = Append(wt.order, "timer")]
    /\ tasks' = [tasks EXCEPT ![1] = [@ EXCEPT !.pc = "done"]]
    /\ UNCHANGED <<apiVars, favVars, run, ts, now, ticks, file, dirExists, diskOk,
                   prev, ncalls, unhandled>>

\* timeoutMs have elapsed: timeoutPromise rejects.
WtTimerFires ==
    /\ wt.timer = "armed"
    /\ wt' = [wt EXCEPT !.timer = "fired",
                        !.race = RaceSettle(wt.race, "timer"),
                        !.order = Append(wt.order, "timer")]
    /\ UNCHANGED <<beyondUtils, run, ts>>

\* Mutant: the catch block rethrows an error that is not the timer's.
WtResume_Rethrows ==
    /\ wt.pc = "race"
    /\ wt.race # "pending"
    /\ wt' = IF wt.race = "fnError"
             THEN [wt EXCEPT !.pc = "rejected"]
             ELSE [wt EXCEPT !.pc = "done",
                             !.res = IF wt.race = "fn" THEN wt.value
                                     ELSE wt.fallbackValue,
                             !.returns = wt.returns + 1]
    /\ UNCHANGED <<beyondUtils, run, ts>>

\* The continuation of `await Promise.race(...)`: the value of fn is
\* returned, or the catch block returns fallbackValue.
WtResume ==
    /\ wt.pc = "race"
    /\ wt.race # "pending"
    /\ wt' = [wt EXCEPT !.pc = "done",
                        !.res = IF wt.race = "fn" THEN wt.value ELSE wt.fallbackValue,
                        !.returns = wt.returns + 1]
    /\ UNCHANGED <<beyondUtils, run, ts>>

NextTimeout ==
    \/ CallWithTimeout
    \/ WtFnResolves
    \/ WtFnRejects
    \/ WtTimerFires
    \/ WtResume

----------------------------------------------------------------------------
(* utils.js: tryStrategies *)

\* What strategy i resolves with when it succeeds, and the messages of the
\* errors a strategy fails with.
StrategyValue(i) == "s" \o ToString(i)
ErrorMessages == {"boom", "down"}

RECURSIVE Join(_, _)
\* errors.map(e => e.message).join(sep), as the list of its parts.
Join(messages, sep) ==
    IF messages = <<>> THEN <<>>
    ELSE IF Len(messages) = 1 THEN messages
    ELSE <<Head(messages), sep>> \o Join(Tail(messages), sep)

\* `All strategies failed: ${...}`
AggregateMessage(errors) == <<"All strategies failed: ">> \o Join(errors, ", ")

\* Mutant: only the first error is kept.
Caught_First(errors, message) == IF errors = <<>> THEN <<message>> ELSE errors

\* errors.push(error)
Caught(errors, message) == Append(errors, message)

\* strategies[i]() is called.
Invoke(t, i) == [t EXCEPT !.pc = "await", !.i = i, !.invoked = Append(t.invoked, i)]

\* Mutant: a success is remembered and the loop goes on.
OnSuccess_Continue(t, v) ==
    LET u == [t EXCEPT !.res = v, !.outcome = Append(t.outcome, "ok")] IN
    IF t.i + 1 < t.n THEN Invoke(u, t.i + 1) ELSE [u EXCEPT !.pc = "done"]

\* return await strategies[i]()
OnSuccess(t, v) ==
    [t EXCEPT !.pc = "done", !.res = v, !.outcome = Append(t.outcome, "ok")]

\* tryStrategies up to its first await; with no strategy the loop is
\* skipped and the error thrown.
CallTryStrategies ==
    /\ ts.pc \in {"idle", "done", "rejected"}
    /\ ts.calls < MaxCalls
    /\ \E n \in 0..MaxStrategies :
          LET t == [TsIdle EXCEPT !.n = n, !.calls = ts.calls + 1] IN
          ts' = IF n = 0
                THEN [t EXCEPT !.pc = "rejected", !.message = AggregateMessage(<<>>)]
                ELSE Invoke(t, 0)
    /\ UNCHANGED <<beyondUtils, run, wt>>

\* The strategy awaited resolves: its value is returned.
StrategyResolves ==
    /\ ts.pc = "await"
    /\ ts' = OnSuccess(ts, StrategyValue(ts.i))
    /\ UNCHANGED <<beyondUtils, run, wt>>

\* The strategy awaited throws or rejects: the error is kept and the next
\* strategy called; after the last one the combined error is thrown.
StrategyRejects ==
    /\ ts.pc = "await"
    /\ \E message \in ErrorMessages :
          LET t == [ts EXCEPT !.errors = Caught(ts.errors, message),
                              !.outcome = Append(ts.outcome, message)]
          IN  ts' = IF ts.i + 1 < ts.n
                    THEN Invoke(t, ts.i + 1)
                    ELSE [t EXCEPT !.pc = "rejected", !.i = ts.i + 1,
                                   !.message = AggregateMessage(t.errors)]
    /\ UNCHANGED <<beyondUtils, run, wt>>

NextStrategies ==
    \/ CallTryStrategies
    \/ StrategyResolves
    \/ StrategyRejects

\* A caller of withTimeout and of tryStrategies.
NextHelpers ==
    \/ NextTimeout
    \/ NextStrategies

SpecHelpers == InitUtils /\ [][NextHelpers]_vars

\* C14: withTimeout returns fn's value when fn resolved before the timer
\* fired and the fallback value when the timer fired first; it returns
\* once, one of the two.
C14_FirstOfFnAndTimer ==
    wt.pc = "done" =>
        /\ wt.returns = 1
        /\ wt.order # <<>>
        /\ Head(wt.order) = "fn" => wt.res = wt.value
        /\ Head(wt.order) = "timer" => wt.res = wt.fallbackValue
        /\ wt.res \in {wt.value, wt.fallbackValue}

\* fn resolved first and its value was returned, the timer firing later.
C14_Witness ==
    /\ wt.pc = "done"
    /\ wt.order = <<"fn", "timer">>
    /\ wt.res = wt.value

Upto(k) == [i \in 1..k |-> i - 1]

IsErrorMessage(part) == part \in ErrorMessages

\* C15: the strategies are called in input order, one at a time; the value
\* returned is that of the first strategy that succeeded, and none is
\* called after it.
C15_FirstSuccessInOrder ==
    /\ ts.invoked = Upto(Len(ts.invoked))
    /\ ts.pc = "await" => Len(ts.invoked) = Len(ts.outcome) + 1
    /\ ts.pc = "done" =>
        /\ Len(ts.invoked) = Len(ts.outcome)
        /\ \A k \in 1..(Len(ts.outcome) - 1) : ts.outcome[k] # "ok"
        /\ ts.outcome[Len(ts.outcome)] = "ok"
        /\ ts.res = StrategyValue(Len(ts.outcome) - 1)

\* Only the third strategy succeeded.
C15_Witness ==
    /\ ts.pc = "done" /\ ts.n = 3
    /\ Len(ts.outcome) = 3
    /\ ts.res = StrategyValue(2)

\* C16: when every strategy has failed, each was called once, and the error
\* thrown carries the message of each failure, in the order of the
\* strategies.
C16_AggregateErrorInOrder ==
    ts.pc = "rejected" =>
        /\ ts.invoked = Upto(ts.n)
        /\ Len(ts.outcome) = ts.n
        /\ \A k \in 1..ts.n : ts.outcome[k] \in ErrorMessages
        /\ SelectSeq(ts.message, IsErrorMessage) = ts.outcome

\* Three strategies failed with different messages.
C16_Witness ==
    /\ ts.pc = "rejected" /\ ts.n = 3
    /\ ts.outcome = <<"boom", "down", "boom">>
    /\ ts.message = <<"All strategies failed: ", "boom", ", ", "down", ", ", "boom">>

----------------------------------------------------------------------------
(* api.js: getMealById *)

beyondApi == <<cacheVars, utilVars, favVars>>

\* The lookup endpoint answers {meals: null} or {meals: [meal, ...]}.
MealsFound == {[isNull |-> FALSE, list |-> l] : l \in {<<"mealA">>, <<"mealA", "mealB">>}}
MealsReplies == {NoMeals} \cup MealsFound

\* json.meals != null ? json.meals[0] : null
FirstMeal(meals) == IF ~meals.isNull THEN meals.list[1] ELSE "null"

\* fetch(`${BASE_URL}/lookup.php?i=${id}`) is called.
Request(a) == [a EXCEPT !.pc = "fetch", !.requests = a.requests + 1]

\* Mutant: a failed request ends the call with null.
OnFailure_GiveUp(a) == [a EXCEPT !.pc = "done", !.res = "null", !.failures = a.failures + 1]

\* A request has failed, in the try block (a response that is not ok) or
\* in the catch block (anything thrown): with attempts >= 1 the call
\* waits a second, otherwise it calls getMealById(id, attempts) at once.
OnFailure(a) ==
    LET b == [a EXCEPT !.failures = a.failures + 1] IN
    IF a.attempts >= 1 THEN [b EXCEPT !.pc = "delay"] ELSE Request(b)

CallGetMealById ==
    /\ api.pc \in {"idle", "done"}
    /\ api.calls < MaxCalls
    /\ \E attempts \in 0..MaxAttempts :
          api' = Request([ApiIdle EXCEPT !.attempts = attempts, !.given = attempts,
                                         !.calls = api.calls + 1])
    /\ UNCHANGED beyondApi

\* fetch resolves with a response that is ok: its body is read.
FetchOk ==
    /\ api.pc = "fetch"
    /\ api' = [api EXCEPT !.pc = "json"]
    /\ UNCHANGED beyondApi

\* fetch resolves with a response that is not ok.
FetchNotOk ==
    /\ api.pc = "fetch"
    /\ api.requests < MaxRequests
    /\ api' = OnFailure(api)
    /\ UNCHANGED beyondApi

\* fetch rejects (a network error).
FetchRejects ==
    /\ api.pc = "fetch"
    /\ api.requests < MaxRequests
    /\ api' = OnFailure(api)
    /\ UNCHANGED beyondApi

\* response.json() resolves: the first meal or null is returned.
JsonResolves ==
    /\ api.pc = "json"
    /\ \E meals \in MealsReplies :
          api' = [api EXCEPT !.pc = "done", !.meals = meals, !.res = FirstMeal(meals)]
    /\ UNCHANGED beyondApi

\* response.json() rejects (a body that is not JSON).
JsonRejects ==
    /\ api.pc = "json"
    /\ api.requests < MaxRequests
    /\ api' = OnFailure(api)
    /\ UNCHANGED beyondApi

\* The second has passed: attempts--, return getMealById(id, attempts).
DelayElapses ==
    /\ api.pc = "delay"
    /\ api.requests < MaxRequests
    /\ api' = Request([api EXCEPT !.attempts = api.attempts - 1,
                                  !.delays = api.delays + 1])
    /\ UNCHANGED beyondApi

NextApi ==
    \/ CallGetMealById
    \/ FetchOk
    \/ FetchNotOk
    \/ FetchRejects
    \/ JsonResolves
    \/ JsonRejects
    \/ DelayElapses

SpecApi == InitUtils /\ [][NextApi]_vars

\* C17: when every request fails, getMealById(id, N) makes a bounded number
\* of requests (N, or N + 1 counting the first request apart from the N
\* retries) and then returns null.
C17_BoundedRetry ==
    api.failures >= api.requests - 1 => api.requests <= api.given + 1

\* C18: when the first k - 1 requests fail and the k-th succeeds, k <=
\* attempts, the call returns the first meal of that response (null when
\* it has none) after exactly k requests.
C18_RetryUntilSuccess ==
    (api.pc = "done" /\ api.failures + 1 <= api.given) =>
        /\ api.requests = api.failures + 1
        /\ api.delays = api.failures
        /\ api.res = IF api.meals.isNull THEN "null" ELSE api.meals.list[1]

\* The first request failed and the second returned a meal.
C18_Witness ==
    /\ api.pc = "done" /\ api.given = 2
    /\ api.failures = 1 /\ api.requests = 2
    /\ api.res = "mealA"

----------------------------------------------------------------------------
(* favorites.js *)

\* favorites.js shares the data/ directory and the disk with the cache.
beyondFav == <<utilVars, apiVars, now, ticks, file, tasks, prev, ncalls>>

Ids == {"1", "2"}
Names == {"Stew", "Soup"}
Recipes == [idMeal : Ids, strMeal : Names]

\* JSON.stringify(favorites, null, 2): the text of each record in turn.
FavStringify(list) == [k \in DOMAIN list |-> <<list[k].idMeal, list[k].strMeal>>]

\* JSON.parse(content)
FavParse(text) == [k \in DOMAIN text |-> [idMeal |-> text[k][1], strMeal |-> text[k][2]]]

FavEmpty == [st |-> "empty", text |-> <<>>]
FavDoc(list) == [st |-> "ok", text |-> FavStringify(list)]

\* What getFavorites returns on file f: the list parsed, or [] when the
\* read fails, the content is empty or it does not parse.
GetFavoritesResult(f) == IF f.st = "ok" THEN FavParse(f.text) ELSE <<>>

\* Mutant: no record is taken for a duplicate.
Exists_Never(favorites, recipe) == FALSE

\* Mutant: favorites are compared as whole records.
Exists_SameRecord(favorites, recipe) ==
    \E k \in DOMAIN favorites : favorites[k] = recipe

\* favorites.some((fav) => fav.idMeal === recipe.idMeal)
Exists(favorites, recipe) ==
    \E k \in DOMAIN favorites : favorites[k].idMeal = recipe.idMeal

\* Mutant: the recipe is put in front (unshift for push).
Pushed_Front(favorites, recipe) == <<recipe>> \o favorites

\* favorites.push(recipe)
Pushed(favorites, recipe) == Append(favorites, recipe)

\* Mutant: the filter keeps nothing.
Filtered_All(favorites, recipeId) == <<>>

\* favorites.filter(favorite => favorite.idMeal !== recipeId)
Filtered(favorites, recipeId) ==
    LET Keep(fav) == fav.idMeal # recipeId IN SelectSeq(favorites, Keep)

FavSettled(f) == f.pc \in {"idle", "done"}

\* Task i ends with frame f: the awaited call keeps its frame for the
\* caller to read, any other task goes away.
FavFinish(i, f) ==
    IF i = 1 THEN [favTasks EXCEPT ![1] = f] ELSE Remove(favTasks, i)

FavReturn(i, f, v) == FavFinish(i, [f EXCEPT !.pc = "done", !.res = v])

\* The caller issues a call and awaits it ...
FavIssue(f) ==
    /\ FavSettled(favTasks[1])
    /\ favCalls < MaxCalls
    /\ favCalls' = favCalls + 1
    /\ favTasks' = [favTasks EXCEPT ![1] =
                       [f EXCEPT !.quiet = (Len(favTasks) = 1), !.before = favFile]]

\* ... or issues it without waiting for it (an overlapping call).
FavStart(f) ==
    /\ favCalls < MaxCalls
    /\ Len(favTasks) < MaxFavTasks
    /\ favCalls' = favCalls + 1
    /\ favTasks' = Append(favTasks, [f EXCEPT !.quiet = FALSE, !.before = favFile])

CallInitializeFavorites ==
    /\ FavIssue(FavFrame("init", "access", NoRecipe))
    /\ UNCHANGED <<beyondFav, favFile, dirExists, diskOk, unhandled>>

CallAddFavorite ==
    /\ \E recipe \in Recipes : FavIssue(FavFrame("add", "access", recipe))
    /\ UNCHANGED <<beyondFav, favFile, dirExists, diskOk, unhandled>>

CallRemoveFavorite ==
    /\ \E recipeId \in Ids :
          FavIssue(FavFrame("remove", "access", [NoRecipe EXCEPT !.idMeal = recipeId]))
    /\ UNCHANGED <<beyondFav, favFile, dirExists, diskOk, unhandled>>

StartAddFavorite ==
    /\ \E recipe \in Recipes : FavStart(FavFrame("add", "access", recipe))
    /\ UNCHANGED <<beyondFav, favFile, dirExists, diskOk, unhandled>>

StartRemoveFavorite ==
    /\ \E recipeId \in Ids :
          FavStart(FavFrame("remove", "access", [NoRecipe EXCEPT !.idMeal = recipeId]))
    /\ UNCHANGED <<beyondFav, favFile, dirExists, diskOk, unhandled>>

\* initializeFavorites has returned in task i, having started the promises
\* `started`.  In initializeFavorites itself that is the end; addFavorite
\* and removeFavorite go on into getFavorites, which calls
\* initializeFavorites without awaiting it and reads the file.
AfterInitializeFavorites(i, f, started) ==
    IF f.fn = "init"
    THEN FavFinish(i, [f EXCEPT !.pc = "done"]) \o started
    ELSE [favTasks EXCEPT ![i] = [f EXCEPT !.pc = "read"]]
            \o started \o <<FavFrame("init", "access", NoRecipe)>>

\* The continuation of `await fs.access(FAVORITES_FILE)`.
FavInitAccessBy(i) ==
    LET f == favTasks[i]
        after == AfterInitializeFavorites(i, f, <<>>)
    IN
    /\ f.pc = "access"
    /\ IF favFile.st # "missing"
       THEN /\ Len(after) <= MaxFavTasks
            /\ favTasks' = after
       ELSE favTasks' = [favTasks EXCEPT ![i] = [f EXCEPT !.pc = "accessDir"]]
    /\ UNCHANGED <<beyondFav, favFile, favCalls, dirExists, diskOk, unhandled>>

\* The continuation of `await fs.access(dirPath)`: fs.mkdir, if the
\* directory is missing, and fs.writeFile(FAVORITES_FILE, "[]") are called
\* and not awaited.
FavInitAccessDirBy(i) ==
    LET f == favTasks[i]
        mkdir == IF dirExists THEN <<>> ELSE <<FavFrame("mkdir", "mkdir", NoRecipe)>>
        after == AfterInitializeFavorites(
                    i, f, mkdir \o <<FavFrame("write", "open", NoRecipe)>>)
    IN
    /\ f.pc = "accessDir"
    /\ Len(after) <= MaxFavTasks
    /\ favTasks' = after
    /\ UNCHANGED <<beyondFav, favFile, favCalls, dirExists, diskOk, unhandled>>

\* The fs.mkdir nobody awaits.
FavMkdirBy(i) ==
    LET f == favTasks[i] IN
    /\ f.pc = "mkdir"
    /\ dirExists' = (dirExists \/ diskOk)
    /\ unhandled' = (unhandled \/ ~diskOk)
    /\ favTasks' = Remove(favTasks, i)
    /\ UNCHANGED <<beyondFav, favFile, favCalls, diskOk>>

\* The continuation of `await fs.readFile(FAVORITES_FILE)` in getFavorites,
\* and what addFavorite or removeFavorite does with the list up to its
\* fs.writeFile.
FavReadBy(i) ==
    LET f == favTasks[i]
        favorites == GetFavoritesResult(favFile)
        g == [f EXCEPT !.seen = favorites]
        filteredFavorites == Filtered(favorites, f.recipe.idMeal)
    IN
    /\ f.pc = "read"
    /\ favTasks' =
          IF f.fn = "add"
          THEN IF Exists(favorites, f.recipe)
               THEN FavReturn(i, g, "false")
               ELSE [favTasks EXCEPT ![i] =
                        [g EXCEPT !.pc = "open", !.wrote = TRUE,
                                  !.list = Pushed(favorites, f.recipe)]]
          ELSE IF Len(filteredFavorites) = Len(favorites)
               THEN FavReturn(i, g, "false")
               ELSE [favTasks EXCEPT ![i] =
                        [g EXCEPT !.pc = "open", !.wrote = TRUE,
                                  !.list = filteredFavorites]]
    /\ UNCHANGED <<beyondFav, favFile, favCalls, dirExists, diskOk, unhandled>>

\* fs.writeFile opens the file (creating or emptying it); when it cannot,
\* an awaited write makes its caller return false and a write nobody awaits
\* rejects unhandled.
FavWriteOpenBy(i) ==
    LET f == favTasks[i] IN
    /\ f.pc = "open"
    /\ IF diskOk /\ dirExists
       THEN /\ favFile' = FavEmpty
            /\ favTasks' = [favTasks EXCEPT ![i] = [f EXCEPT !.pc = "data"]]
            /\ unhandled' = unhandled
       ELSE /\ favFile' = favFile
            /\ favTasks' = IF f.fn = "write" THEN Remove(favTasks, i)
                           ELSE FavReturn(i, [f EXCEPT !.failed = TRUE], "false")
            /\ unhandled' = (unhandled \/ f.fn = "write")
    /\ UNCHANGED <<beyondFav, favCalls, dirExists, diskOk>>

\* ... and then writes the text.
FavWriteDataBy(i) ==
    LET f == favTasks[i] IN
    /\ f.pc = "data"
    /\ favFile' = FavDoc(f.list)
    /\ favTasks' = IF f.fn = "write" THEN Remove(favTasks, i)
                   ELSE FavReturn(i, f, "true")
    /\ UNCHANGED <<beyondFav, favCalls, dirExists, diskOk, unhandled>>

FavInitAccess == \E i \in DOMAIN favTasks : FavInitAccessBy(i)
FavInitAccessDir == \E i \in DOMAIN favTasks : FavInitAccessDirBy(i)
FavMkdir == \E i \in DOMAIN favTasks : FavMkdirBy(i)
FavRead == \E i \in DOMAIN favTasks : FavReadBy(i)
FavWriteOpen == \E i \in DOMAIN favTasks : FavWriteOpenBy(i)
FavWriteData == \E i \in DOMAIN favTasks : FavWriteDataBy(i)

NoDuplicateIds(list) ==
    \A j, k \in DOMAIN list : list[j].idMeal = list[k].idMeal => j = k

\* The lists an earlier run of the program left: no two records with the
\* same id.
SeedLists ==
    {<<>>} \cup {<<r>> : r \in Recipes}
           \cup {<<r, q>> : r \in {x \in Recipes : x.idMeal = "1"},
                            q \in {x \in Recipes : x.idMeal = "2"}}

InitFav ==
    /\ now = 0
    /\ ticks = 0
    /\ file = MissingFile
    /\ diskOk = TRUE
    /\ tasks = <<Idle>>
    /\ prev = Summary(Idle)
    /\ ncalls = 0
    /\ unhandled = FALSE
    /\ run = RunIdle
    /\ wt = WtIdle
    /\ ts = TsIdle
    /\ api = ApiIdle
    /\ favTasks = <<FavIdle>>
    /\ favCalls = 0
    /\ dirExists \in BOOLEAN
    /\ favFile \in {FavMissing, FavEmpty} \cup {FavDoc(l) : l \in SeedLists}
    /\ (~dirExists => favFile = FavMissing)

\* A caller that awaits each call of favorites.js before the next.
NextFav ==
    \/ DiskFault
    \/ DiskRecover
    \/ CallInitializeFavorites
    \/ CallAddFavorite
    \/ CallRemoveFavorite
    \/ FavInitAccess
    \/ FavInitAccessDir
    \/ FavMkdir
    \/ FavRead
    \/ FavWriteOpen
    \/ FavWriteData

SpecFav == InitFav /\ [][NextFav]_vars

\* A caller that does not wait: its calls of addFavorite and removeFavorite
\* overlap.  The data/ directory is there.
InitFavOverlap == InitFav /\ dirExists

NextFavOverlap ==
    \/ StartAddFavorite
    \/ StartRemoveFavorite
    \/ FavInitAccess
    \/ FavInitAccessDir
    \/ FavRead
    \/ FavWriteOpen
    \/ FavWriteData

SpecFavOverlap == InitFavOverlap /\ [][NextFavOverlap]_vars

FavCur == favTasks[1]

FavReturned(fn) == FavCur.fn = fn /\ FavCur.pc = "done"

HasId(list, id) == \E k \in DOMAIN list : list[k].idMeal = id

\* C19: addFavorite of a recipe whose idMeal is in the list returns false
\* and writes nothing, so that the list stays as it was; addFavorite of an
\* id that is not in the list returns true (unless its write fails).
C19_AddIsIdempotentOnId ==
    FavReturned("add") =>
        /\ HasId(FavCur.seen, FavCur.recipe.idMeal) =>
              (FavCur.res = "false" /\ ~FavCur.wrote)
        /\ ( /\ FavCur.quiet /\ FavCur.before.st = "ok"
             /\ HasId(FavParse(FavCur.before.text), FavCur.recipe.idMeal) )
           => (FavCur.res = "false" /\ ~FavCur.wrote /\ favFile = FavCur.before)
        /\ (~HasId(FavCur.seen, FavCur.recipe.idMeal) /\ ~FavCur.failed) =>
              (FavCur.res = "true" /\ FavCur.wrote)

\* A recipe with the id of a favorite, under another name, was refused and
\* the file is as it was.
C19_Witness ==
    /\ FavReturned("add") /\ FavCur.res = "false" /\ FavCur.quiet
    /\ FavCur.before = FavDoc(<<[idMeal |-> "1", strMeal |-> "Stew"]>>)
    /\ FavCur.recipe = [idMeal |-> "1", strMeal |-> "Soup"]
    /\ favFile = FavCur.before

\* C20: from a file without duplicates, whatever calls of addFavorite and
\* removeFavorite are made, overlapping ones included, the file never holds
\* two records with the same idMeal.
C20_NoDuplicateIds ==
    favFile.st = "ok" => NoDuplicateIds(FavParse(favFile.text))

\* A call of addFavorite that read the list without the id is about to
\* write while the file already holds that id, written by an overlapping
\* call.
C20_Witness ==
    /\ favFile.st = "ok"
    /\ \E i \in DOMAIN favTasks :
          /\ favTasks[i].fn = "add" /\ favTasks[i].pc = "open"
          /\ ~HasId(favTasks[i].seen, favTasks[i].recipe.idMeal)
          /\ ~HasId(FavParse(favTasks[i].before.text), favTasks[i].recipe.idMeal)
          /\ HasId(FavParse(favFile.text), favTasks[i].recipe.idMeal)

----------------------------------------------------------------------------
(* favorites.js: isInFavorites and getFavoriteById *)

\* isInFavorites and getFavoriteById begin in getFavorites: it calls
\* initializeFavorites without awaiting it and reads the file.  The frame
\* remembers the call its caller awaited before this one.
FavIssueQuery(fn, recipeId) ==
    /\ FavSettled(favTasks[1])
    /\ favCalls < MaxCalls
    /\ Len(favTasks) < MaxFavTasks
    /\ favCalls' = favCalls + 1
    /\ favTasks' =
          [favTasks EXCEPT ![1] =
              [FavFrame(fn, "query", [NoRecipe EXCEPT !.idMeal = recipeId])
                  EXCEPT !.quiet = (Len(favTasks) = 1),
                         !.before = favFile,
                         !.prior = [fn |-> favTasks[1].fn,
                                    res |-> favTasks[1].res,
                                    recipe |-> favTasks[1].recipe]]]
             \o <<FavFrame("init", "access", NoRecipe)>>

CallIsInFavorites ==
    /\ \E recipeId \in Ids : FavIssueQuery("isInFavorites", recipeId)
    /\ UNCHANGED <<beyondFav, favFile, dirExists, diskOk, unhandled>>

CallGetFavoriteById ==
    /\ \E recipeId \in Ids : FavIssueQuery("getFavoriteById", recipeId)
    /\ UNCHANGED <<beyondFav, favFile, dirExists, diskOk, unhandled>>

\* favorites.find(recipe => recipe.idMeal === recipeId) || null, the first
\* match; `list` holds the record found and is empty for null.
Find(favorites, recipeId) ==
    LET Match(fav) == fav.idMeal = recipeId
        found == SelectSeq(favorites, Match)
    IN IF found = <<>> THEN <<>> ELSE <<found[1]>>

\* The continuation of `await fs.readFile(FAVORITES_FILE)` in the
\* getFavorites of isInFavorites or getFavoriteById, up to their return.
FavQueryBy(i) ==
    LET f == favTasks[i]
        favorites == GetFavoritesResult(favFile)
        found == Find(favorites, f.recipe.idMeal)
        g == [f EXCEPT !.seen = favorites, !.list = found]
    IN
    /\ f.pc = "query"
    /\ favTasks' =
          IF f.fn = "isInFavorites"
          THEN FavReturn(i, g, IF \E k \in DOMAIN favorites :
                                     favorites[k].idMeal = f.recipe.idMeal
                               THEN "true" ELSE "false")
          ELSE FavReturn(i, g, IF found = <<>> THEN "null" ELSE "record")
    /\ UNCHANGED <<beyondFav, favFile, favCalls, dirExists, diskOk, unhandled>>

FavQuery == \E i \in DOMAIN favTasks : FavQueryBy(i)

\* A caller that adds favorites and asks for them, awaiting each call; the
\* disk does not fail.
NextFavQuery ==
    \/ CallAddFavorite
    \/ CallIsInFavorites
    \/ CallGetFavoriteById
    \/ FavInitAccess
    \/ FavInitAccessDir
    \/ FavMkdir
    \/ FavRead
    \/ FavQuery
    \/ FavWriteOpen
    \/ FavWriteData

SpecFavQuery == InitFav /\ [][NextFavQuery]_vars

\* The awaited call before this one was addFavorite of this id, and it
\* returned true.
AfterAdded(fn) ==
    /\ FavReturned(fn)
    /\ FavCur.prior.fn = "add" /\ FavCur.prior.res = "true"
    /\ FavCur.prior.recipe.idMeal = FavCur.recipe.idMeal

\* C21: after addFavorite(recipe) returned true, isInFavorites(id) is true
\* and getFavoriteById(id) returns the recipe, also when the file did not
\* exist before and initializeFavorites created it.
C21_AddedIsFound ==
    /\ AfterAdded("isInFavorites") => FavCur.res = "true"
    /\ AfterAdded("getFavoriteById") => FavCur.list = <<FavCur.prior.recipe>>

\* The records of list whose id is not id, in their order.
Others(list, id) ==
    LET Other(fav) == fav.idMeal # id IN SelectSeq(list, Other)

\* C22: removeFavorite(id) returns true exactly when the list it read held
\* a record with that id (and its write did not fail), and the list it
\* writes is the list read without that record, the other records kept;
\* when no record has the id, which is also what a failed read gives, it
\* returns false and writes nothing.
C22_RemoveExactlyWhenPresent ==
    FavReturned("remove") =>
        LET id == FavCur.recipe.idMeal IN
        /\ FavCur.res \in {"true", "false"}
        /\ ~FavCur.failed => (FavCur.res = "true" <=> HasId(FavCur.seen, id))
        /\ FavCur.res = "true" =>
              /\ FavCur.wrote
              /\ ~HasId(FavCur.list, id)
              /\ FavCur.list = Others(FavCur.seen, id)
              /\ (FavCur.quiet /\ FavCur.before.st = "ok") =>
                    /\ FavCur.seen = FavParse(FavCur.before.text)
                    /\ favFile = FavDoc(FavCur.list)
        /\ ~HasId(FavCur.seen, id) =>
              /\ FavCur.res = "false" /\ ~FavCur.wrote
              /\ (FavCur.quiet /\ FavCur.before.st # "missing") =>
                    favFile = FavCur.before
        /\ FavCur.before.st # "ok" /\ FavCur.quiet => FavCur.res = "false"

\* The first of two favorites was removed and the file holds the second.
C22_Witness ==
    /\ FavReturned("remove") /\ FavCur.res = "true" /\ FavCur.quiet
    /\ FavCur.recipe.idMeal = "1"
    /\ FavCur.seen = <<[idMeal |-> "1", strMeal |-> "Stew"],
                       [idMeal |-> "2", strMeal |-> "Soup"]>>
    /\ favFile = FavDoc(<<[idMeal |-> "2", strMeal |-> "Soup"]>>)

----------------------------------------------------------------------------
(* getCachedOrFetch: forceRefresh and empty results *)

\* C23: getCachedOrFetch with forceRefresh invokes fetchFn whatever the
\* document holds, never returns a stored entry, and when fetchFn fails
\* returns nothing (undefined) although the document may hold an entry for
\* the key.
C23_ForceRefreshNoFallback ==
    (Cur.fn = "fetch" /\ Cur.force) =>
        /\ Cur.ops = 1
        /\ Cur.src \notin {"cache", "fallback"}
        /\ (Cur.pc = "done" /\ Cur.opFailed) => Cur.res = "undefined"
        /\ (Cur.pc = "done" /\ ~Cur.opFailed) => (Cur.src = "op" /\ Cur.res = Cur.data)

\* fetchFn failed under forceRefresh and nothing was returned while the
\* document holds a fresh entry for the key.
C23_Witness ==
    /\ Returned("fetch") /\ Cur.force /\ Cur.opFailed
    /\ Cur.res = "undefined"
    /\ CacheHit(file, Cur.key, now)
    /\ JSONParse(file.body)[Cur.key].data = "mealA"

\* fetchFn has resolved in this step.
OpResolved == Cur.fn = "fetch" /\ Cur.pc = "op" /\ Cur'.pc # "op" /\ ~Cur'.opFailed

\* C24: when fetchFn resolves, an empty result ("[]" or null) included,
\* getCachedOrFetch returns the result as it is, calls saveToCache with it
\* under the key, and does not read the document for a stale entry.
C24_EmptyResultIsReturnedAndSaved ==
    [][OpResolved =>
          /\ Cur'.pc = "done" /\ Cur'.src = "op"
          /\ Cur'.res \in Values /\ Cur'.res = Cur'.data
          /\ Cur'.seen = Cur.seen
          /\ tasks' = [tasks EXCEPT ![1] = Cur']
                         \o <<NewFrame("save", "access", Cur.key, Cur'.res, FALSE)>>
      ]_vars

\* fetchFn returned an empty list while the document held an expired entry
\* for the key; the list was returned and is now what the document holds.
C24_Witness ==
    /\ Returned("fetch") /\ Cur.src = "op" /\ Cur.res = "[]"
    /\ SeenHas(Cur) /\ SeenAge(Cur) >= TTL /\ SeenEntry(Cur).data = "mealA"
    /\ Readable(file) /\ Cur.key \in DOMAIN file.body
    /\ JSONParse(file.body)[Cur.key].data = "[]"

----------------------------------------------------------------------------
(* The cache document: corruption and overlapping writers *)

\* C25: a cache document that does not parse is taken for an empty store
\* and is repaired: getFromCache returns null on it, and a saveToCache
\* issued on it, nothing else running, returns true having written a
\* document that holds the entry.
C25_CorruptDocumentSelfHeals ==
    /\ (Returned("get") /\ Cur.seen.st = "corrupt") => Cur.res = "null"
    /\ (Returned("save") /\ Cur.quiet /\ Cur.seen.st = "corrupt") =>
          (Cur.res = "true" /\ Cur.key \in DOMAIN Cur.content)

\* C26: overlapping saveToCache calls may lose an update, but two calls for
\* different keys made one after the other, each awaited and both returning
\* true, leave both entries in the document once every write has ended
\* (no write having failed).
C26_SequentialSavesKeepBoth ==
    ( /\ Returned("save") /\ Cur.res = "true"
      /\ prev.fn = "save" /\ prev.res = "true" /\ prev.quiet
      /\ prev.key # Cur.key
      /\ Len(tasks) = 1 /\ ~unhandled )
    => /\ Readable(file)
       /\ {prev.key, Cur.key} \subseteq DOMAIN file.body

----------------------------------------------------------------------------
(* api.js: the operations that return a list *)

MaxLetters == 2
MaxLimit == 2

\* The lists a list endpoint answers with, and its answers {meals: null}
\* or {meals: [...]}.
MealLists ==
    {<<>>} \cup {<<r>> : r \in Recipes} \cup {<<r, q>> : r, q \in Recipes}

ListReplies == {NoMeals} \cup {[isNull |-> FALSE, list |-> l] : l \in MealLists}

\* Search terms and ingredients; first letters.
Terms == {"egg", "rice"}
Letters == {"a", "b"}

\* The recipes getRelatedRecipes is given: null, a recipe without
\* strCategory, a recipe of the category Beef.
RelatedInputs ==
    {[isNull |-> TRUE, idMeal |-> "", strCategory |-> "undefined"],
     [isNull |-> FALSE, idMeal |-> "1", strCategory |-> "undefined"],
     [isNull |-> FALSE, idMeal |-> "1", strCategory |-> "Beef"]}

\* A call of searchMealsByName, searchMealsByFirstLetter,
\* getMealsByIngredient or getRelatedRecipes with its n requests (one per
\* letter, one otherwise); getMealsByIngredient races a timer against its
\* request.
ListFrame(fn, arg, limit, n) ==
    [fn |-> fn, pc |-> "await",
     arg |-> arg,               \* the query, the letters, the ingredient, the recipe
     limit |-> limit,
     reqs |-> [i \in 1..n |-> "fetch"],     \* "fetch", "json", "settled"
     replies |-> [i \in 1..n |-> NoMeals],  \* what each request's promise fulfilled with
     timer |-> "none",          \* "none", "armed", "fired"
     res |-> [kind |-> "none", list |-> <<>>, text |-> <<>>],
     calls |-> api.calls + 1,
     \* what happened, recorded for the properties:
     how |-> [i \in 1..n |-> "pending"],    \* "ok", "notOk", "rejected" per request
     requested |-> "none",      \* the category asked for
     outcome |-> "none"]        \* what ended the call: "data", "error", "timeout", "guard"

ReturnList(a, list) ==
    [a EXCEPT !.pc = "done", !.res = [kind |-> "list", list |-> list, text |-> <<>>]]

\* `The request for meals with "${ingredient}" took too long. Please try
\* again later.`, in pieces.
Advisory(ingredient) ==
    <<"The request for meals with \"", ingredient, "\" ", "took too long",
      ". Please try again later.">>

\* Mutant: the catch block returns [] for every error.
ListCaught_Empty(a, message) == IF a.pc # "await" THEN a ELSE ReturnList(a, <<>>)

\* Mutant: every catch block returns the advisory text.
ListCaught_Text(a, message) ==
    IF a.pc # "await" THEN a
    ELSE [a EXCEPT !.pc = "done",
                   !.res = [kind |-> "text", list |-> <<>>, text |-> Advisory("")]]

\* The catch block of the four functions: [], and in getMealsByIngredient
\* the advisory text when the message includes "Request timed out".  Once
\* the call has returned, a promise that rejects changes nothing.
ListCaught(a, message) ==
    IF a.pc # "await" THEN a
    ELSE IF a.fn = "getMealsByIngredient" /\ message = "Request timed out"
         THEN [a EXCEPT !.pc = "done",
                        !.res = [kind |-> "text", list |-> <<>>,
                                 text |-> Advisory(a.arg)]]
         ELSE ReturnList(a, <<>>)

\* results.forEach(json => { if (json.meals != null) json.meals.forEach(push) })
RECURSIVE Flatten(_)
Flatten(results) ==
    IF results = <<>> THEN <<>>
    ELSE (IF Head(results).isNull THEN <<>> ELSE Head(results).list)
            \o Flatten(Tail(results))

\* Mutant: a meal seen before replaces the one kept.
RECURSIVE Unique_KeepLast(_)
Unique_KeepLast(list) ==
    IF list = <<>> THEN <<>>
    ELSE LET rest == Unique_KeepLast(Tail(list)) IN
         IF \E k \in DOMAIN rest : rest[k].idMeal = Head(list).idMeal
         THEN rest ELSE <<Head(list)>> \o rest

\* fullMealsArray.filter with mealIdsSet: a meal is kept when its idMeal
\* has not been seen before.
RECURSIVE Unique(_)
Unique(list) ==
    IF list = <<>> THEN <<>>
    ELSE LET front == Unique(SubSeq(list, 1, Len(list) - 1))
             meal == list[Len(list)]
         IN IF \E k \in DOMAIN front : front[k].idMeal = meal.idMeal
            THEN front ELSE Append(front, meal)

\* meals.filter((meal) => meal.idMeal !== recipe.idMeal).slice(0, limit)
Related(meals, recipe, limit) ==
    LET Other(meal) == meal.idMeal # recipe.idMeal
        filtered == SelectSeq(meals, Other)
    IN SubSeq(filtered, 1, Min(limit, Len(filtered)))

\* What each function returns once all its requests have fulfilled.
ListData(a) ==
    LET data == a.replies[1]
        meals == IF data.isNull THEN <<>> ELSE data.list
    IN CASE a.fn = "searchMealsByName" -> meals
         [] a.fn = "getMealsByIngredient" -> meals
         [] a.fn = "getRelatedRecipes" -> Related(meals, a.arg, a.limit)
         [] OTHER -> Unique(Flatten(a.replies))

\* Request i's promise fulfils with reply; when it was the last one awaited
\* the function returns.
Fulfil(a, i, reply, how) ==
    LET b == [a EXCEPT !.reqs[i] = "settled", !.replies[i] = reply, !.how[i] = how] IN
    IF b.pc = "await" /\ \A k \in DOMAIN b.reqs : b.reqs[k] = "settled"
    THEN ReturnList([b EXCEPT !.outcome = "data"], ListData(b))
    ELSE b

\* Request i's promise rejects: the function's await throws into its catch
\* block, unless it has returned already.
Reject(a, i, message) ==
    ListCaught([a EXCEPT !.reqs[i] = "settled",
                         !.how[i] = IF message = "API error" THEN "notOk" ELSE "rejected",
                         !.outcome = IF a.pc = "await" THEN "error" ELSE @],
               message)

ListIdle == api.pc \in {"idle", "done"} /\ api.calls < MaxCalls

CallSearchMealsByName ==
    /\ ListIdle
    /\ \E query \in Terms : api' = ListFrame("searchMealsByName", query, 0, 1)
    /\ UNCHANGED beyondApi

\* Promise.all of no promise is fulfilled at once.
CallSearchMealsByFirstLetter ==
    /\ ListIdle
    /\ \E n \in 0..MaxLetters : \E letters \in [1..n -> Letters] :
          LET a == ListFrame("searchMealsByFirstLetter", letters, 0, n) IN
          api' = IF n = 0 THEN ReturnList([a EXCEPT !.outcome = "data"], <<>>) ELSE a
    /\ UNCHANGED beyondApi

\* getMealsByIngredient(ingredient, timeoutMs): the timer and the request
\* are started and raced.
CallGetMealsByIngredient ==
    /\ ListIdle
    /\ \E ingredient \in Terms :
          api' = [ListFrame("getMealsByIngredient", ingredient, 0, 1)
                     EXCEPT !.timer = "armed"]
    /\ UNCHANGED beyondApi

\* getRelatedRecipes(recipe, limit): a recipe with a category returns []
\* at once (line 272), null throws a TypeError at recipe.strCategory, and
\* for a recipe without category the category "undefined" is requested.
CallGetRelatedRecipes ==
    /\ ListIdle
    /\ \E recipe \in RelatedInputs, limit \in 1..MaxLimit :
          LET a == ListFrame("getRelatedRecipes", recipe, limit, 0) IN
          api' = IF ~recipe.isNull /\ recipe.strCategory # "undefined"
                 THEN ReturnList([a EXCEPT !.outcome = "guard"], <<>>)
                 ELSE IF recipe.isNull
                 THEN ListCaught([a EXCEPT !.outcome = "error"],
                                 "Cannot read properties of null")
                 ELSE [ListFrame("getRelatedRecipes", recipe, limit, 1)
                          EXCEPT !.requested = recipe.strCategory]
    /\ UNCHANGED beyondApi

\* A fetch resolves with a response that is ok: response.json() is called.
ListFetchOk ==
    /\ api.pc \in {"await", "done"}
    /\ \E i \in DOMAIN api.reqs :
          /\ api.reqs[i] = "fetch"
          /\ api' = [api EXCEPT !.reqs[i] = "json"]
    /\ UNCHANGED beyondApi

\* A fetch resolves with a response that is not ok: searchMealsByFirstLetter
\* returns [] for the letter, an array whose .meals is undefined; the other
\* functions throw an Error.
ListFetchNotOk ==
    /\ api.pc \in {"await", "done"}
    /\ \E i \in DOMAIN api.reqs :
          /\ api.reqs[i] = "fetch"
          /\ api' = IF api.fn = "searchMealsByFirstLetter"
                    THEN Fulfil(api, i, NoMeals, "notOk")
                    ELSE Reject(api, i, "API error")
    /\ UNCHANGED beyondApi

\* A fetch rejects (a network error).
ListFetchRejects ==
    /\ api.pc \in {"await", "done"}
    /\ \E i \in DOMAIN api.reqs :
          /\ api.reqs[i] = "fetch"
          /\ api' = Reject(api, i, "fetch failed")
    /\ UNCHANGED beyondApi

\* response.json() resolves.
ListJsonResolves ==
    /\ api.pc \in {"await", "done"}
    /\ \E i \in DOMAIN api.reqs, data \in ListReplies :
          /\ api.reqs[i] = "json"
          /\ api' = Fulfil(api, i, data, "ok")
    /\ UNCHANGED beyondApi

\* response.json() rejects (a body that is not JSON).
ListJsonRejects ==
    /\ api.pc \in {"await", "done"}
    /\ \E i \in DOMAIN api.reqs :
          /\ api.reqs[i] = "json"
          /\ api' = Reject(api, i, "Unexpected token")
    /\ UNCHANGED beyondApi

\* setTimeout's callback rejects the timer's promise with 'Request timed
\* out'.
IngTimerFires ==
    /\ api.pc \in {"await", "done"}
    /\ api.timer = "armed"
    /\ api' = ListCaught([api EXCEPT !.timer = "fired",
                                     !.outcome = IF api.pc = "await" THEN "timeout" ELSE @],
                         "Request timed out")
    /\ UNCHANGED beyondApi

NextLists ==
    \/ CallSearchMealsByName
    \/ CallSearchMealsByFirstLetter
    \/ CallGetMealsByIngredient
    \/ CallGetRelatedRecipes
    \/ ListFetchOk
    \/ ListFetchNotOk
    \/ ListFetchRejects
    \/ ListJsonResolves
    \/ ListJsonRejects
    \/ IngTimerFires

SpecLists == InitUtils /\ [][NextLists]_vars

ListReturned(fn) == api.pc = "done" /\ api.calls > 0 /\ api.fn = fn

\* C27: getMealsByIngredient never rejects: when the timer fires before
\* the request has completed it returns the advisory text, which contains
\* 'took too long'; when the request completes first it returns the meals
\* ([] when there are none); on any other failure it returns [].
C27_IngredientTimeoutAdvisory ==
    ListReturned("getMealsByIngredient") =>
        /\ api.outcome \in {"data", "error", "timeout"}
        /\ api.outcome = "timeout" =>
              /\ api.res.kind = "text"
              /\ \E k \in DOMAIN api.res.text : api.res.text[k] = "took too long"
              /\ api.timer = "fired"
        /\ api.outcome = "data" =>
              /\ api.res.kind = "list"
              /\ api.res.list = IF api.replies[1].isNull THEN <<>>
                                ELSE api.replies[1].list
        /\ api.outcome = "error" => (api.res.kind = "list" /\ api.res.list = <<>>)

\* The timer fired while the request was still waiting for its response.
C27_Witness ==
    /\ ListReturned("getMealsByIngredient")
    /\ api.outcome = "timeout" /\ api.reqs[1] = "fetch"
    /\ api.res.text = Advisory("egg")

ListFunctions == {"searchMealsByName", "searchMealsByFirstLetter", "getRelatedRecipes"}

C29_FirstLetterConcatDedupe ==
    (ListReturned("searchMealsByFirstLetter") /\ api.outcome = "data") =>
        LET MealsOf(i) == IF api.replies[i].isNull THEN <<>> ELSE api.replies[i].list
            Places == UNION {{<<i, j>> : j \in DOMAIN MealsOf(i)} : i \in DOMAIN api.replies}
            MealAt(p) == MealsOf(p[1])[p[2]]
            Before(p, q) == p[1] < q[1] \/ (p[1] = q[1] /\ p[2] < q[2])
            Firsts == {p \in Places :
                          \A q \in Places :
                              MealAt(q).idMeal = MealAt(p).idMeal => ~Before(q, p)}
            result == api.res.list
        IN
        /\ NoDuplicateIds(result)
        /\ \A p \in Places : HasId(result, MealAt(p).idMeal)
        /\ Len(result) = Cardinality(Firsts)
        /\ \A p \in Firsts :
              result[Cardinality({q \in Firsts : Before(q, p)}) + 1] = MealAt(p)

\* Two letters: the second response repeats an idMeal of the first under
\* another name and adds a new one; the first occurrence was kept.
C29_Witness ==
    /\ ListReturned("searchMealsByFirstLetter") /\ api.outcome = "data"
    /\ api.how = <<"ok", "ok">>
    /\ api.replies[1].list = <<[idMeal |-> "1", strMeal |-> "Stew"]>>
    /\ api.replies[2].list = <<[idMeal |-> "1", strMeal |-> "Soup"],
                               [idMeal |-> "2", strMeal |-> "Soup"]>>
    /\ api.res.list = <<[idMeal |-> "1", strMeal |-> "Stew"],
                        [idMeal |-> "2", strMeal |-> "Soup"]>>

\* C30: getRelatedRecipes(recipe, limit), for a recipe that has a
\* category, requests the meals of that category and, when the request is
\* answered, returns the first `limit` of them whose idMeal is not the
\* recipe's.
C30_RelatedRequestsCategory ==
    ( /\ ListReturned("getRelatedRecipes")
      /\ ~api.arg.isNull /\ api.arg.strCategory # "undefined" )
    => /\ api.requested = api.arg.strCategory
       /\ api.outcome \in {"data", "error"}
       /\ api.outcome = "data" =>
             LET meals == IF api.replies[1].isNull THEN <<>> ELSE api.replies[1].list
                 others == Others(meals, api.arg.idMeal)
             IN /\ Len(api.res.list) = Min(api.limit, Len(others))
                /\ api.res.list = SubSeq(others, 1, Len(api.res.list))

----------------------------------------------------------------------------
(* Failing and abandoned cache writes *)

\* C31: when fetchFn has resolved, getCachedOrFetch returns its result
\* whatever becomes of the write to the store, and a failing write raises
\* nothing: no rejection is left unhandled.
C31_CacheWriteIsBestEffort ==
    (Returned("fetch") /\ Cur.src = "op") =>
        /\ Cur.res = Cur.data
        /\ ~unhandled

----------------------------------------------------------------------------
(* withTimeout(() => getCachedOrFetch(key, fetchFn, forceRefresh), ...) *)

\* withTimeout whose fn is a call of getCachedOrFetch: the timer is armed
\* and getCachedOrFetch is called.
CallWithTimeoutFetch ==
    /\ wt.pc \in {"idle", "done"}
    /\ wt.calls < MaxCalls
    /\ \E fallbackValue \in FallbackValues :
          wt' = [WtIdle EXCEPT !.pc = "race", !.fn = "pending", !.timer = "armed",
                               !.race = "pending",
                               !.fallbackValue = fallbackValue,
                               !.calls = wt.calls + 1]
    /\ \E k \in Keys, force \in BOOLEAN :
          Issue([NewFrame("fetch", IF force THEN "op" ELSE "cacheRead", k, "null", force)
                    EXCEPT !.ops = IF force THEN 1 ELSE 0])
    /\ UNCHANGED <<apiVars, favVars, run, ts, now, ticks, file, dirExists, diskOk,
                   unhandled>>

\* getCachedOrFetch has returned: fn's promise resolves with its value,
\* whether or not withTimeout still waits for it.
WtFetchReturns ==
    /\ wt.fn = "pending"
    /\ Returned("fetch")
    /\ wt' = [wt EXCEPT !.fn = "resolved", !.value = Cur.res,
                        !.race = RaceSettle(wt.race, "fn"),
                        !.order = Append(wt.order, "fn")]
    /\ UNCHANGED <<beyondUtils, run, ts>>

\* The timer fires at any moment other than between getCachedOrFetch's
\* return and the resolution of its promise, which no timer can separate.
WtFetchTimerFires ==
    /\ ~(wt.fn = "pending" /\ Returned("fetch"))
    /\ WtTimerFires

NextTimeoutFetch ==
    \/ CallWithTimeoutFetch
    \/ WtFetchReturns
    \/ WtFetchTimerFires
    \/ WtResume
    \/ FetchCacheRead
    \/ FetchOpSucceeds
    \/ FetchOpFails
    \/ FetchFallback
    \/ InitAccess
    \/ SaveSteps

\* The cache file exists and holds an empty store.
SpecTimeoutFetch == InitWith(0, {DocFile(EmptyDoc)}) /\ [][NextTimeoutFetch]_vars

\* withTimeout has returned the fallback value because the timer fired
\* first.
Abandoned == wt.pc = "done" /\ wt.order # <<>> /\ Head(wt.order) = "timer"

\* C32: withTimeout does not cancel the operation that lost the race: the
\* timer's firing leaves the operation and the store as they are, after
\* the fallback value has been returned the operation can still resolve
\* and start its cache write, and nothing it does changes what was
\* returned.
C32_LosingOperationRunsOn ==
    /\ [](Abandoned => wt.res = wt.fallbackValue)
    /\ []((Abandoned /\ Cur.fn = "fetch" /\ Cur.pc = "op" /\ CanSpawn)
             => ENABLED FetchOpSucceeds)
    /\ [][(wt.timer = "armed" /\ wt'.timer = "fired")
             => (tasks' = tasks /\ file' = file)]_vars
    /\ [][(Abandoned /\ wt'.calls = wt.calls)
             => (wt'.pc = "done" /\ wt'.res = wt.res)]_vars

\* The fallback value was returned while fetchFn was still pending; the
\* fetch then completed and its cache write is on its way to the file.
C32_Witness ==
    /\ Abandoned /\ wt.order = <<"timer", "fn">>
    /\ wt.res = wt.fallbackValue
    /\ Returned("fetch") /\ Cur.src = "op" /\ Cur.res = "mealA"
    /\ \E i \in 2..Len(tasks) :
          /\ tasks[i].fn = "write" /\ tasks[i].pc = "data"
          /\ tasks[i].key = Cur.key /\ tasks[i].data = "mealA"

----------------------------------------------------------------------------
(* saveToCache and initializeCache: what they change *)

\* C33: the document saveToCache(key, data) writes is the document it read
\* with the entry of key set to {timestamp: now, data}, every other entry
\* as it was; with nothing else running that is what the file holds once
\* the write has ended, and when saveToCache returns false the file is as
\* it found it.
C33_SaveChangesOnlyItsKey ==
    Returned("save") =>
        /\ Cur.res = "true" =>
              /\ Readable(Cur.seen)
              /\ DOMAIN Cur.content = DOMAIN Cur.seen.body \cup {Cur.key}
              /\ Cur.content[Cur.key] = [timestamp |-> Cur.at, data |-> Cur.data]
              /\ \A k \in DOMAIN Cur.seen.body \ {Cur.key} :
                    Cur.content[k] = JSONParse(Cur.seen.body)[k]
              /\ (Cur.quiet /\ Len(tasks) = 1 /\ ~unhandled) =>
                    file = DocFile(Cur.content)
        /\ (Cur.res = "false" /\ Cur.quiet) => file = Cur.seen

\* An expired entry was overwritten: it carries the time of the call and
\* the new data, and the file holds it.
C33_Witness ==
    /\ Returned("save") /\ Cur.res = "true" /\ Cur.quiet
    /\ SeenHas(Cur) /\ SeenAge(Cur) >= TTL /\ SeenEntry(Cur).data = "[]"
    /\ Cur.data = "mealA"
    /\ file = DocFile(Cur.content)
    /\ file.body[Cur.key].timestamp = Cur.at

\* The awaited initializeCache takes a step.
InitCallSteps == tasks[1].fn = "init" /\ tasks'[1] # tasks[1]

\* C34: initializeCache that finds the file returns at once and changes
\* neither the file nor the directory; one that wrote has left the empty
\* document in an existing directory; called again after a call that
\* created the file, it writes nothing and the file is as the first call
\* left it.
C34_InitializeCacheIdempotent ==
    /\ [][(InitCallSteps /\ tasks[1].pc = "access" /\ file.st # "missing") =>
            /\ tasks'[1].pc = "done"
            /\ ~tasks'[1].wrote
            /\ file' = file
            /\ dirExists' = dirExists]_vars
    /\ []((Returned("init") /\ Cur.wrote /\ Cur.quiet) =>
            (file = DocFile(EmptyDoc) /\ dirExists))
    /\ []((Returned("init") /\ prev.fn = "init" /\ prev.wrote /\ Cur.quiet) =>
            (~Cur.wrote /\ file = DocFile(EmptyDoc)))

\* initializeCache created the file and was called a second time.
C34_Witness ==
    /\ Returned("init") /\ prev.fn = "init" /\ prev.pc = "done" /\ prev.wrote
    /\ ~Cur.wrote
    /\ file = DocFile(EmptyDoc)

\* C35: searchMealsByFirstLetter has returned and every letter's request
\* has ended: the meals of each letter whose request was answered are in
\* the result, whatever became of the other letters' requests.
C35_LetterFailureIsLocal ==
    (/\ ListReturned("searchMealsByFirstLetter")
     /\ \A i \in DOMAIN api.reqs : api.reqs[i] = "settled") =>
        \A i \in DOMAIN api.reqs :
            (api.how[i] = "ok" /\ ~api.replies[i].isNull) =>
                \A j \in DOMAIN api.replies[i].list :
                    HasId(api.res.list, api.replies[i].list[j].idMeal)

----------------------------------------------------------------------------
(* favorites.js: the order of the list *)

\* Three favorites an earlier run of the program left, in every order, and
\* the lists of two and of one of them.
Stew1 == [idMeal |-> "1", strMeal |-> "Stew"]
Soup2 == [idMeal |-> "2", strMeal |-> "Soup"]
Pie3 == [idMeal |-> "3", strMeal |-> "Pie"]

OrderedSeeds ==
    LET S == {Stew1, Soup2, Pie3} IN
    {<<>>} \cup {<<a>> : a \in S}
           \cup {l \in [1..2 -> S] : l[1] # l[2]}
           \cup {l \in [1..3 -> S] : \A j, k \in 1..3 : l[j] = l[k] => j = k}

InitFavOrder ==
    /\ now = 0
    /\ ticks = 0
    /\ file = MissingFile
    /\ diskOk = TRUE
    /\ tasks = <<Idle>>
    /\ prev = Summary(Idle)
    /\ ncalls = 0
    /\ unhandled = FALSE
    /\ run = RunIdle
    /\ wt = WtIdle
    /\ ts = TsIdle
    /\ api = ApiIdle
    /\ favTasks = <<FavIdle>>
    /\ favCalls = 0
    /\ dirExists \in BOOLEAN
    /\ favFile \in {FavMissing} \cup {FavDoc(l) : l \in OrderedSeeds}
    /\ (~dirExists => favFile = FavMissing)

SpecFavOrder == InitFavOrder /\ [][NextFav]_vars

\* x comes before y in list.
Precedes(list, x, y) ==
    \E j, k \in DOMAIN list : j < k /\ list[j] = x /\ list[k] = y

Members(list) == {list[k] : k \in DOMAIN list}

\* C36: the list addFavorite writes is the list it read with the recipe in
\* the last place, every record read in the place it had; the list
\* removeFavorite writes holds the records read whose id is not the one
\* removed, any two of them in the order they had.  With nothing else
\* running the list read is the file's and the list written is what the
\* file holds afterwards.
C36_InsertionOrderKept ==
    /\ (FavReturned("add") /\ FavCur.res = "true") =>
          /\ Len(FavCur.list) = Len(FavCur.seen) + 1
          /\ FavCur.list[Len(FavCur.list)] = FavCur.recipe
          /\ \A k \in DOMAIN FavCur.seen : FavCur.list[k] = FavCur.seen[k]
          /\ (FavCur.quiet /\ FavCur.before.st = "ok") =>
                /\ FavCur.seen = FavParse(FavCur.before.text)
                /\ favFile = FavDoc(FavCur.list)
    /\ (FavReturned("remove") /\ FavCur.res = "true") =>
          /\ Members(FavCur.list) =
                {x \in Members(FavCur.seen) : x.idMeal # FavCur.recipe.idMeal}
          /\ Len(FavCur.list) = Cardinality(Members(FavCur.list))
          /\ \A x, y \in Members(FavCur.list) :
                Precedes(FavCur.list, x, y) <=> Precedes(FavCur.seen, x, y)
          /\ (FavCur.quiet /\ FavCur.before.st = "ok") =>
                /\ FavCur.seen = FavParse(FavCur.before.text)
                /\ favFile = FavDoc(FavCur.list)

\* A recipe was added to a list of two favorites: it comes after them, and
\* they are in the order they had.
C36_Witness ==
    /\ FavReturned("add") /\ FavCur.res = "true" /\ FavCur.quiet
    /\ FavCur.before = FavDoc(<<Pie3, Stew1>>)
    /\ FavCur.recipe = Soup2
    /\ favFile = FavDoc(<<Pie3, Stew1, Soup2>>)

----------------------------------------------------------------------------
(* favorites.js: a read that fails *)

\* `await fs.readFile(FAVORITES_FILE)` rejects (an I/O error, no file
\* descriptor left): the catch block of getFavorites returns [], and
\* addFavorite or removeFavorite goes on with that list.
FavReadFailsBy(i) ==
    LET f == favTasks[i]
        favorites == <<>>
        g == [f EXCEPT !.seen = favorites]
    IN
    /\ f.pc = "read"
    /\ favTasks' =
          IF f.fn = "add"
          THEN [favTasks EXCEPT ![i] =
                   [g EXCEPT !.pc = "open", !.wrote = TRUE,
                             !.list = Pushed(favorites, f.recipe)]]
          ELSE FavReturn(i, g, "false")
    /\ UNCHANGED <<beyondFav, favFile, favCalls, dirExists, diskOk, unhandled>>

FavReadFails == \E i \in DOMAIN favTasks : FavReadFailsBy(i)

\* A caller that awaits each call, on a file system whose reads can fail
\* as well as its writes.
NextFavReadFault ==
    \/ DiskFault
    \/ DiskRecover
    \/ CallInitializeFavorites
    \/ CallAddFavorite
    \/ CallRemoveFavorite
    \/ FavInitAccess
    \/ FavInitAccessDir
    \/ FavMkdir
    \/ FavRead
    \/ FavReadFails
    \/ FavWriteOpen
    \/ FavWriteData

SpecFavReadFault == InitFav /\ [][NextFavReadFault]_vars

\* C37: addFavorite, called with nothing else running on a file that holds
\* a list, has returned: every record the file held is still in it, and
\* when the write failed the call returned false and the file is as it was.
C37_AddKeepsExisting ==
    (FavReturned("add") /\ FavCur.quiet /\ FavCur.before.st = "ok") =>
        LET old == FavParse(FavCur.before.text) IN
        /\ favFile.st = "ok"
        /\ \A k \in DOMAIN old :
              \E j \in DOMAIN favFile.text : FavParse(favFile.text)[j] = old[k]
        /\ FavCur.failed => (FavCur.res = "false" /\ favFile = FavCur.before)

----------------------------------------------------------------------------
(* utils.js: withTimeout and runWithConcurrency, further properties *)

\* C38: a call of withTimeout is waiting or has returned, never rejected;
\* when fn threw or its promise rejected first, the fallback value was
\* returned; and once the call has returned, the timer firing or fn
\* settling changes nothing of what it returned.
C38_WithTimeoutNeverRejects ==
    /\ [](wt.pc \in {"idle", "race", "done"})
    /\ []((wt.pc \notin {"idle", "race"} /\ wt.order # <<>>
              /\ Head(wt.order) = "fnError") =>
            (wt.pc = "done" /\ wt.res = wt.fallbackValue /\ wt.returns = 1))
    /\ []((wt.pc = "done" /\ wt.order # <<>> /\ Head(wt.order) = "fn") =>
            wt.res = wt.value)
    /\ [][(wt.pc = "done" /\ wt'.calls = wt.calls) =>
            (wt'.pc = "done" /\ wt'.res = wt.res /\ wt'.returns = wt.returns)]_vars

\* fn's promise rejected, the fallback value was returned, and the timer
\* fired afterwards.
C38_Witness ==
    /\ wt.pc = "done" /\ wt.fn = "rejected"
    /\ wt.order = <<"fnError", "timer">>
    /\ wt.res = wt.fallbackValue

\* The tasks not started yet.
Unstarted == {i \in DOMAIN run.promise : run.promise[i] = "unstarted"}

\* A task has settled and the continuation of its runTask has not run yet.
ContinuationReady ==
    \E j \in DOMAIN run.chain :
        /\ run.chain[j] >= 0
        /\ run.promise[run.chain[j]] \in {"resolved", "rejected"}

\* C39: with concurrency >= 1, once the continuation of every settled task
\* has run, the tasks in flight are min(concurrency, unsettled tasks) in
\* number; the tasks started are always the first ones of the list; and
\* the continuation of a settled task, while unstarted tasks remain, starts
\* the first of them and no other.
C39_WorkConserving ==
    /\ []((run.conc >= 1 /\ run.pc \in {"all", "done"} /\ ~ContinuationReady) =>
            Cardinality(InFlight) = Min(run.conc, Cardinality(UnsettledTasks)))
    /\ [](run.conc >= 1 =>
            Unstarted = {i \in DOMAIN run.promise : i >= run.currentIndex})
    /\ [][(/\ run.conc >= 1
           /\ run'.calls = run.calls
           /\ run'.results # run.results
           /\ Unstarted # {}) =>
            LET next == CHOOSE i \in Unstarted : \A k \in Unstarted : i <= k IN
            /\ run'.promise[next] = "pending"
            /\ \A i \in Unstarted \ {next} : run'.promise[i] = "unstarted"]_vars

\* Of three tasks run two at a time, the second settled first and the third
\* was started in its place while the first is still running.
C39_Witness ==
    /\ run.pc = "all" /\ run.conc = 2 /\ run.n = 3
    /\ run.promise = [i \in 0..2 |-> IF i = 1 THEN "resolved" ELSE "pending"]
    /\ run.results[1] = ResultOf(1)
    /\ run.currentIndex = 3
    /\ ~ContinuationReady

====
